---- MODULE Spec2Model ----
(***************************************************************************)
(* KITE (quantum transport, Kernel Polynomial Method): the 2D KPM vector   *)
(* (tiled Multiply / Velocity, halo exchange, ghost zeroing), the moment   *)
(* accumulators Gamma1D / Gamma2D and the reduction store_gamma.           *)
(*                                                                         *)
(* Amplitudes are modelled by exact integers (real T) or pairs of integers *)
(* (complex T); floating-point rounding is not modelled.                   *)
(***************************************************************************)
EXTENDS Integers, Sequences, FiniteSets, TLC

VARIABLES
  geo,      \* LatticeStructure r: thread grid nd, tiles per thread lStr, Orb
  ham,      \* Hamiltonian h (regular part, disorder, defects, vacancies)
  kv,       \* kv[t][name] : the KPM_Vector objects of thread t (index, memory, v)
  ghosts,   \* ghosts[t]   : Simulation::ghosts, the per-thread staging array
  Gghosts,  \* Global.ghosts, the shared staging region
  pc,       \* pc[t]       : position of thread t: [at, d, n, e, bad]
  pub,      \* pub[t]      : history, <<exchange number, axis>> thread t published last
  mv,       \* one vector driven through a sequence of Multiply / Velocity calls
  gs,       \* the moment accumulator Gamma1D / Gamma2D / Gamma3D run by the team
  sg,       \* store_gamma: the threads' arrays, Global.general_gamma, the file
  job       \* the process around the vectors: main, the parallel region, file operations

vars == <<geo, ham, kv, ghosts, Gghosts, pc, pub, mv, gs, sg, job>>

\* the variables the thread team of the exchange does not touch
others == <<mv, gs, sg, job>>

(***************************************************************************)
(* Program constants and bounds                                            *)
(***************************************************************************)
NGHOSTS == 2
STRIDE == 3
MaxThreads == 4
MaxTilesPerAxis == 1
MaxOrb == 2
MaxMul == 3

\* the value f with every function in it tabulated once (evaluation order only)
Eval(f) == IF f = f THEN f ELSE f
Max2(a, b) == IF a > b THEN a ELSE b
SeqProd(s) ==
  LET RECURSIVE Go(_)
      Go(k) == IF k = 0 THEN 1 ELSE s[k] * Go(k - 1)
  IN Go(Len(s))
SeqSum(s) ==
  LET RECURSIVE Go(_)
      Go(k) == IF k = 0 THEN 0 ELSE s[k] + Go(k - 1)
  IN Go(Len(s))

(***************************************************************************)
(* LatticeStructure and Coordinates                                        *)
(***************************************************************************)
nThreads(g) == g.nd[1] * g.nd[2]
Threads(g) == 0 .. (nThreads(g) - 1)
ld(g, d) == g.lStr[d + 1] * STRIDE
Ld(g, d) == ld(g, d) + 2 * NGHOSTS
Lt(g, d) == ld(g, d) * g.nd[d + 1]
Nd(g) == Ld(g, 0) * Ld(g, 1)
Sized(g) == Nd(g) * g.Orb
Cells(g) == 0 .. (Sized(g) - 1)
NStr(g) == g.lStr[1] * g.lStr[2]

\* Coordinates<_,3>(r.Ld).set({i0,i1,io}).index
LIndex(g, i0, i1, io) == i0 + Ld(g, 0) * i1 + Nd(g) * io
LX(g, i) == i % Ld(g, 0)
LY(g, i) == (i \div Ld(g, 0)) % Ld(g, 1)
LO(g, i) == i \div Nd(g)
\* Coordinates<_,3>(r.Lt).set({x0,x1,io}).index
GIndex(g, x0, x1, io) == x0 + Lt(g, 0) * x1 + Lt(g, 0) * Lt(g, 1) * io
GSites(g) == 0 .. (Lt(g, 0) * Lt(g, 1) * g.Orb - 1)

\* Coordinates<int,3>(r.nd).set_coord(thread_id)
ThreadCoord(g, t, d) == IF d = 0 THEN t % g.nd[1] ELSE t \div g.nd[1]

\* r.convertCoordinates(z, x): local cell of thread t -> wrapped global site
GlobalOf(g, t, i) ==
  LET w(d, c) == (c - NGHOSTS + ThreadCoord(g, t, d) * ld(g, d) + Lt(g, d)) % Lt(g, d)
  IN GIndex(g, w(0, LX(g, i)), w(1, LY(g, i)), LO(g, i))

IsBulk(g, i) ==
  /\ LX(g, i) >= NGHOSTS /\ LX(g, i) < Ld(g, 0) - NGHOSTS
  /\ LY(g, i) >= NGHOSTS /\ LY(g, i) < Ld(g, 1) - NGHOSTS
BulkCells(g) == {i \in Cells(g) : IsBulk(g, i)}

(***************************************************************************)
(* KPM_Vector<T,2> constructor: exchange tables                            *)
(***************************************************************************)
maxOf(g, d) == IF d = 0 THEN ld(g, 1) ELSE Ld(g, 0)
strideOf(g, d) == IF d = 0 THEN Ld(g, 0) ELSE 1
stride_ghosts(g, d) == IF d = 0 THEN 1 ELSE Ld(g, 0)

MemIndBeg(g, d, b, io) ==
  IF d = 0
  THEN (IF b = 0 THEN LIndex(g, NGHOSTS, NGHOSTS, io)
                 ELSE LIndex(g, Ld(g, 0) - 2 * NGHOSTS, NGHOSTS, io))
  ELSE (IF b = 0 THEN LIndex(g, 0, NGHOSTS, io)
                 ELSE LIndex(g, 0, Ld(g, 1) - 2 * NGHOSTS, io))

MemIndEnd(g, d, b, io) ==
  IF d = 0
  THEN (IF b = 0 THEN LIndex(g, 0, NGHOSTS, io)
                 ELSE LIndex(g, Ld(g, 0) - NGHOSTS, NGHOSTS, io))
  ELSE (IF b = 0 THEN LIndex(g, 0, 0, io)
                 ELSE LIndex(g, 0, Ld(g, 1) - NGHOSTS, io))

\* block[d][b] = x.set_coord(thread_id).add(dist).index, dist[d] = 2b-1 (periodic)
blockMirror(g, t, d, b) ==
  LET c0 == ThreadCoord(g, t, 0)
      c1 == ThreadCoord(g, t, 1)
      n0 == IF d = 0 THEN (c0 + 1 - 2 * b + g.nd[1]) % g.nd[1] ELSE c0
      n1 == IF d = 1 THEN (c1 + 1 - 2 * b + g.nd[2]) % g.nd[2] ELSE c1
  IN n0 + g.nd[1] * n1

block(g, t, d, b) ==
  LET c0 == ThreadCoord(g, t, 0)
      c1 == ThreadCoord(g, t, 1)
      n0 == IF d = 0 THEN (c0 + 2 * b - 1 + g.nd[1]) % g.nd[1] ELSE c0
      n1 == IF d = 1 THEN (c1 + 2 * b - 1 + g.nd[2]) % g.nd[2] ELSE c1
  IN n0 + g.nd[1] * n1

(***************************************************************************)
(* Exchange_Boundaries, one block of code between two barriers at a time   *)
(***************************************************************************)
BSize(g, d) == g.Orb * maxOf(g, d) * NGHOSTS
\* size of Simulation::ghosts ( = Global.ghosts.size() / n_threads )
SliceSize(g) == 2 * Max2(BSize(g, 0), BSize(g, 1))

\* position k of a staging half -> (i, ig, io) with k = i + (ig + NGHOSTS*io)*max[d]
StI(g, d, k) == k % maxOf(g, d)
StG(g, d, k) == (k \div maxOf(g, d)) % NGHOSTS
StO(g, d, k) == k \div (maxOf(g, d) * NGHOSTS)

\* lines 530-550: the two bulk faces -> ghosts_left / ghosts_right
StageFaces(g, d, phi, st) ==
  Eval([k \in DOMAIN st |->
          IF k < 2 * BSize(g, d)
          THEN LET b == k \div BSize(g, d)
                   r == k % BSize(g, d)
               IN phi[MemIndBeg(g, d, b, StO(g, d, r)) + StI(g, d, r) * strideOf(g, d)
                      + StG(g, d, r) * stride_ghosts(g, d)]
          ELSE st[k]])

\* line 553: std::copy(ghosts_left, ghosts_left + 2*BSize, Global.ghosts + 2*BSize*thread_id)
PublishSlice(g, d, t, st, G) ==
  Eval([k \in DOMAIN G |->
          IF k >= 2 * BSize(g, d) * t /\ k < 2 * BSize(g, d) * (t + 1)
          THEN st[k - 2 * BSize(g, d) * t]
          ELSE G[k]])

ReadNeighboursSameSide(g, d, t, st, G) ==
  Eval([k \in DOMAIN st |->
          IF k < BSize(g, d)
          THEN G[2 * block(g, t, d, 0) * BSize(g, d) + k]
          ELSE IF k < 2 * BSize(g, d)
          THEN G[2 * block(g, t, d, 1) * BSize(g, d) + BSize(g, d) + (k - BSize(g, d))]
          ELSE st[k]])

\* lines 555-558: neighbour slices -> ghosts_right / ghosts_left
ReadNeighbours(g, d, t, st, G) ==
  Eval([k \in DOMAIN st |->
          IF k < BSize(g, d)
          THEN G[2 * block(g, t, d, 0) * BSize(g, d) + BSize(g, d) + k]
          ELSE IF k < 2 * BSize(g, d)
          THEN G[2 * block(g, t, d, 1) * BSize(g, d) + (k - BSize(g, d))]
          ELSE st[k]])

\* lines 561-577: ghosts_left / ghosts_right -> the two ghost faces of phi;
\* the k-th write is phi[MemIndEnd + i*stride + ig*stride_ghosts] = ghosts[k]
GhostTarget(g, d, k) ==
  LET b == k \div BSize(g, d)
      r == k % BSize(g, d)
  IN MemIndEnd(g, d, b, StO(g, d, r)) + StI(g, d, r) * strideOf(g, d)
     + StG(g, d, r) * stride_ghosts(g, d)

WriteGhostFaces(g, d, phi, st) ==
  LET RECURSIVE Go(_, _, _)
      Go(f, lo, hi) ==
        IF hi < lo THEN f
        ELSE IF lo = hi THEN [f EXCEPT ![GhostTarget(g, d, lo)] = st[lo]]
        ELSE LET half == Go(f, lo, (lo + hi) \div 2)
             IN IF DOMAIN half = DOMAIN f THEN Go(half, ((lo + hi) \div 2) + 1, hi) ELSE f
  IN Go(phi, 0, 2 * BSize(g, d) - 1)

(***************************************************************************)
(* Sequential execution of the writes of Multiply / Velocity.              *)
(* mem maps a location (vector column) to its array; an operation is       *)
(*   init : phi0[i]  = -MULT * phiM2[i]     (c = MULT)                     *)
(*   clear: phi0[i]  = zero                                                *)
(*   add  : phi0[i] += c * phiM1[s]                                        *)
(*   zero : phi0[i]  = 0.                                                  *)
(* phi0, phiM1, phiM2 may be the same column (memory = 2: phiM2 = phi0).   *)
(***************************************************************************)
Op(k, i, c, s) == [k |-> k, i |-> i, c |-> c, s |-> s]

ExecOpInitFromM1(mem, op, p0, pM1, pM2) ==
  [mem EXCEPT ![p0][op.i] =
     CASE op.k = "init"  -> (0 - op.c) * mem[pM1][op.i]
       [] op.k = "clear" -> 0
       [] op.k = "add"   -> mem[p0][op.i] + op.c * mem[pM1][op.s]
       [] OTHER          -> 0]

ExecOp(mem, op, p0, pM1, pM2) ==
  [mem EXCEPT ![p0][op.i] =
     CASE op.k = "init"  -> (0 - op.c) * mem[pM2][op.i]
       [] op.k = "clear" -> 0
       [] op.k = "add"   -> mem[p0][op.i] + op.c * mem[pM1][op.s]
       [] OTHER          -> 0]

\* the operations are executed in list order (halving keeps the evaluation shallow)
RunOps(mem0, ops, p0, pM1, pM2) ==
  LET RECURSIVE Go(_, _, _)
      Go(mem, lo, hi) ==
        IF hi < lo THEN mem
        ELSE IF lo = hi THEN ExecOp(mem, ops[lo], p0, pM1, pM2)
        ELSE LET half == Go(mem, lo, (lo + hi) \div 2)
             IN IF Len(half) >= 0 THEN Go(half, ((lo + hi) \div 2) + 1, hi) ELSE mem
  IN Go(mem0, 1, Len(ops))

Flatten(ss) ==
  LET RECURSIVE Go(_)
      Go(n) == IF n = 0 THEN <<>> ELSE Go(n - 1) \o ss[n]
  IN Go(Len(ss))

(***************************************************************************)
(* Tiles                                                                   *)
(***************************************************************************)
\* cells of tile istr, orbital io, in the order of the loops j0..j1, j..j+STRIDE
TileCell(g, istr, io, k) ==
  LET i0 == (istr % g.lStr[1]) * STRIDE + NGHOSTS
      i1 == (istr \div g.lStr[1]) * STRIDE + NGHOSTS
      j0 == io * Nd(g) + i0 + i1 * Ld(g, 0)
  IN j0 + ((k - 1) \div STRIDE) * Ld(g, 0) + ((k - 1) % STRIDE)

TileCells(g, istr, io) == [k \in 1 .. (STRIDE * STRIDE) |-> TileCell(g, istr, io, k)]

\* tile a bulk cell belongs to
TileOf(g, i) ==
  ((LY(g, i) - NGHOSTS) \div STRIDE) * g.lStr[1] + ((LX(g, i) - NGHOSTS) \div STRIDE)

\* h.hr.distance(ib, io): linear offset of hopping hp of orbital io
distance(g, io, hp) == hp.dx + hp.dy * Ld(g, 0) + (hp.to - io) * Nd(g)

(***************************************************************************)
(* KPM_Vector<T,2>::Multiply<MULT>, lines 115-256: the list of writes      *)
(***************************************************************************)
InitTileOps(g, istr, MULT) ==
  Flatten([io1 \in 1 .. g.Orb |->
    [k \in 1 .. (STRIDE * STRIDE) |-> Op("init", TileCell(g, istr, io1 - 1, k), MULT, 0)]])

\* the tiles of cross_mozaic_indexes left as they are
PreInitOpsNone(g, h, MULT) == <<>>

\* lines 116-131
PreInitOps(g, h, MULT) ==
  Flatten([n \in 1 .. Len(h.cross_mozaic_indexes) |->
             InitTileOps(g, h.cross_mozaic_indexes[n], MULT)])

\* lines 139-188, one orbital of one tile
OrbitalOps(g, h, istr, io, MULT) ==
  LET cells == TileCells(g, istr, io)
      a == h.Anderson_orb_address[io + 1]
      ini == IF h.cross_mozaic[istr + 1]
             THEN [k \in DOMAIN cells |-> Op("init", cells[k], MULT, 0)]
             ELSE <<>>
      ons == IF a >= 0
             THEN [k \in DOMAIN cells |->
                     Op("add", cells[k],
                        (MULT + 1) * h.U_Anderson[cells[k] - (a - io) * Nd(g)], cells[k])]
             ELSE IF a = -1
             THEN [k \in DOMAIN cells |->
                     Op("add", cells[k], (MULT + 1) * h.U_Orbital[io + 1], cells[k])]
             ELSE <<>>
      hop == Flatten([ib \in 1 .. Len(h.hr[io + 1]) |->
               [k \in DOMAIN cells |->
                  Op("add", cells[k], (MULT + 1) * h.hr[io + 1][ib].t,
                     cells[k] + distance(g, io, h.hr[io + 1][ib]))]])
  IN ini \o ons \o hop

\* lines 193-216, the defects anchored in tile istr
DefectOps(g, h, istr, MULT) ==
  Flatten([id \in 1 .. Len(h.hd) |->
    LET df == h.hd[id] IN
    Flatten([n \in 1 .. Len(df.position[istr + 1]) |->
      LET ip == df.position[istr + 1][n] IN
      [k \in 1 .. Len(df.hopping) |->
         Op("add", ip + df.node_position[df.element1[k] + 1],
            (MULT + 1) * df.hopping[k],
            ip + df.node_position[df.element2[k] + 1])]
      \o
      [k \in 1 .. Len(df.U) |->
         Op("add", ip + df.node_position[df.element[k] + 1],
            (MULT + 1) * df.U[k],
            ip + df.node_position[df.element[k] + 1])]])])

\* lines 219-221
TileVacancyOps(h, istr) ==
  [k \in 1 .. Len(h.hV.position[istr + 1]) |-> Op("zero", h.hV.position[istr + 1][k], 0, 0)]

\* lines 133-223, the sweep over the tiles (i1 outer, i0 inner: istr ascending)
TileSweepOps(g, h, MULT) ==
  Flatten([s1 \in 1 .. NStr(g) |->
    Flatten([io1 \in 1 .. g.Orb |-> OrbitalOps(g, h, s1 - 1, io1 - 1, MULT)])
    \o DefectOps(g, h, s1 - 1, MULT)
    \o TileVacancyOps(h, s1 - 1)])

\* lines 225-226
GlobalVacancyOps(h) ==
  [k \in 1 .. Len(h.hV.vacancies_with_defects) |->
     Op("zero", h.hV.vacancies_with_defects[k], 0, 0)]

\* lines 236-249
BorderHoppingOps(h, MULT) ==
  Flatten([id \in 1 .. Len(h.hd) |->
    [n \in 1 .. Len(h.hd[id].border_element1) |->
       Op("add", h.hd[id].border_element1[n],
          (MULT + 1) * h.hd[id].border_hopping[n], h.hd[id].border_element2[n])]])

\* lines 251-256
BorderOnsiteOps(h, MULT) ==
  Flatten([id \in 1 .. Len(h.hd) |->
    [n \in 1 .. Len(h.hd[id].border_element) |->
       Op("add", h.hd[id].border_element[n],
          (MULT + 1) * h.hd[id].border_U[n], h.hd[id].border_element[n])]])

MultiplyOps(g, h, MULT) ==
  PreInitOps(g, h, MULT) \o TileSweepOps(g, h, MULT) \o GlobalVacancyOps(h)
  \o BorderHoppingOps(h, MULT) \o BorderOnsiteOps(h, MULT)

inc_indexStay(K) == K.index % K.memory

\* KPM_VectorBasis::inc_index
inc_index(K) == (K.index + 1) % K.memory

\* lines 109-256: inc_index and the writes into column index (columns are v[col+1])
MultiplyLocal(g, h, K, MULT) ==
  LET idx == inc_index(K)
      m1 == (K.memory + idx - 1) % K.memory
      m2 == (K.memory + idx - 2) % K.memory
  IN [K EXCEPT !.index = idx,
               !.v = RunOps(K.v, MultiplyOps(g, h, MULT), idx + 1, m1 + 1, m2 + 1)]


(***************************************************************************)
(* Velocity / Velocity2, lines 264-456: the list of writes.                *)
(* sel = [kind, a1, a2] names the table: V[a1] or V2[a1][a2].              *)
(***************************************************************************)
Axis(dx, dy, a) == IF a = 0 THEN dx ELSE dy

\* h.hr.V[axis](ib, io) and h.hr.V2[axis1][axis2](ib, io) (the factor i of V is left out)
HopCoef(h, sel, io, ib) ==
  LET hp == h.hr[io + 1][ib]
  IN IF sel.kind = "V" THEN Axis(hp.dx, hp.dy, sel.a1) * hp.t
     ELSE (0 - Axis(hp.dx, hp.dy, sel.a1)) * Axis(hp.dx, hp.dy, sel.a2) * hp.t

\* id->V[axis][k] and id->V2[axis1][axis2][k]
DefCoef(df, sel, k) ==
  IF sel.kind = "V" THEN df.V[sel.a1 + 1][k] ELSE df.V2[sel.a1 + 1][sel.a2 + 1][k]

\* id->border_V[axis][i] and id->border_V2[axis1][axis2][i]
BorderCoef(df, sel, n) ==
  IF sel.kind = "V" THEN df.border_V[sel.a1 + 1][n]
  ELSE df.border_V2[sel.a1 + 1][sel.a2 + 1][n]

\* lines 276-290 / 375-389
VelPreInitOps(g, h) ==
  Flatten([n \in 1 .. Len(h.cross_mozaic_indexes) |->
    Flatten([io1 \in 1 .. g.Orb |->
      [k \in 1 .. (STRIDE * STRIDE) |->
         Op("clear", TileCell(g, h.cross_mozaic_indexes[n], io1 - 1, k), 0, 0)]])])

\* lines 299-322 / 398-421, one orbital of one tile
VelOrbitalOps(g, h, istr, io, sel) ==
  LET cells == TileCells(g, istr, io)
      ini == IF h.cross_mozaic[istr + 1]
             THEN [k \in DOMAIN cells |-> Op("clear", cells[k], 0, 0)]
             ELSE <<>>
      hop == Flatten([ib \in 1 .. Len(h.hr[io + 1]) |->
               [k \in DOMAIN cells |->
                  Op("add", cells[k], HopCoef(h, sel, io, ib),
                     cells[k] + distance(g, io, h.hr[io + 1][ib]))]])
  IN ini \o hop

\* lines 326-337 / 425-435
VelDefectOps(g, h, istr, sel) ==
  Flatten([id \in 1 .. Len(h.hd) |->
    LET df == h.hd[id] IN
    Flatten([n \in 1 .. Len(df.position[istr + 1]) |->
      LET ip == df.position[istr + 1][n] IN
      [k \in 1 .. Len(df.hopping) |->
         Op("add", ip + df.node_position[df.element1[k] + 1], DefCoef(df, sel, k),
            ip + df.node_position[df.element2[k] + 1])]])])

\* lines 293-344 / 392-440
VelTileSweepOps(g, h, sel) ==
  Flatten([s1 \in 1 .. NStr(g) |->
    Flatten([io1 \in 1 .. g.Orb |-> VelOrbitalOps(g, h, s1 - 1, io1 - 1, sel)])
    \o VelDefectOps(g, h, s1 - 1, sel)
    \o TileVacancyOps(h, s1 - 1)])

\* lines 350-356 / 446-453
VelBorderOps(h, sel) ==
  Flatten([id \in 1 .. Len(h.hd) |->
    [n \in 1 .. Len(h.hd[id].border_element1) |->
       Op("add", h.hd[id].border_element1[n], BorderCoef(h.hd[id], sel, n),
          h.hd[id].border_element2[n])]])

VelocityOps(g, h, sel) ==
  VelPreInitOps(g, h) \o VelTileSweepOps(g, h, sel) \o GlobalVacancyOps(h)
  \o VelBorderOps(h, sel)

\* Velocity(phi0, phiM1, axis) / Velocity2(phi0, phiM1, axis1, axis2) before the
\* exchange; phi0 and phiM1 are columns c0 and c1 of the matrix v
VelocityLocal(g, h, K, c0, c1, sel) ==
  [K EXCEPT !.v = RunOps(K.v, VelocityOps(g, h, sel), c0 + 1, c1 + 1, c1 + 1)]

(***************************************************************************)
(* Regular Hamiltonians (h.hr, shared on-site energy), no disorder         *)
(***************************************************************************)
Hop(dx, dy, to, t) == [dx |-> dx, dy |-> dy, to |-> to, t |-> t]

RegularHam(g, hr, addr, uorb) ==
  [ hr |-> hr,
    Anderson_orb_address |-> addr,
    U_Anderson |-> [i \in Cells(g) |-> 0],
    U_Orbital |-> uorb,
    hd |-> <<>>,
    hV |-> [position |-> [s \in 1 .. NStr(g) |-> <<>>], vacancies_with_defects |-> <<>>],
    cross_mozaic |-> [s \in 1 .. NStr(g) |-> TRUE],
    cross_mozaic_indexes |-> <<>> ]

\* hopping tables per orbital: H = 0, nearest neighbours, reach NGHOSTS with orbital mixing
HrZero(o) == [io1 \in 1 .. o |-> <<>>]
HrNearest(o) ==
  [io1 \in 1 .. o |->
     <<Hop(1, 0, io1 - 1, 1), Hop(-1, 0, io1 - 1, 1), Hop(0, 1, io1 - 1, 2),
       Hop(0, -1, io1 - 1, 2)>>]
HrFar(o) ==
  [io1 \in 1 .. o |->
     <<Hop(NGHOSTS, NGHOSTS, (io1 % o), 1), Hop(-NGHOSTS, 1, io1 - 1, -1),
       Hop(-1, -NGHOSTS, (io1 % o), 3)>>]

RegularHams(g) ==
  { RegularHam(g, HrNearest(g.Orb), [io1 \in 1 .. g.Orb |-> -1], [io1 \in 1 .. g.Orb |-> io1]),
    RegularHam(g, HrFar(g.Orb), [io1 \in 1 .. g.Orb |-> -2], [io1 \in 1 .. g.Orb |-> 0]) }

(***************************************************************************)
(* The team of threads: test_boundaries_system, then Multiply<0>,          *)
(* Multiply<1>, ... on the 2-column vector kpm1                            *)
(***************************************************************************)
ThreadGrids == {nd \in (1 .. MaxThreads) \X (1 .. MaxThreads) : nd[1] * nd[2] <= MaxThreads}
Geoms ==
  {[nd |-> nd, lStr |-> ls, Orb |-> o] :
     nd \in ThreadGrids, ls \in (1 .. MaxTilesPerAxis) \X (1 .. MaxTilesPerAxis),
     o \in 1 .. MaxOrb}

\* KPM_VectorBasis::aux_wr for real T
aux_wr(x) == x

NewVector(g, mem) ==
  Eval([index |-> 0, memory |-> mem, v |-> [c \in 1 .. mem |-> [i \in Cells(g) |-> 0]]])

Init ==
  /\ geo \in Geoms
  /\ ham \in RegularHams(geo)
  /\ kv = [t \in Threads(geo) |-> [kpm1 |-> NewVector(geo, 2)]]
  /\ ghosts = [t \in Threads(geo) |-> [k \in 0 .. (SliceSize(geo) - 1) |-> 0]]
  /\ Gghosts = [k \in 0 .. (SliceSize(geo) * nThreads(geo) - 1) |-> 0]
  /\ pc = [t \in Threads(geo) |-> [at |-> "fill", d |-> 0, n |-> 0, e |-> 0, bad |-> 0]]
  /\ pub = [t \in Threads(geo) |-> <<0, 0>>]
  /\ mv = [at |-> "off"]
  /\ gs = [at |-> "off"]
  /\ job = [at |-> "off"]
  /\ sg = [at |-> "off"]

Col(K) == K.v[K.index + 1]
SetCol(K, c, a) == [K EXCEPT !.v[c + 1] = a]

\* test_boundaries_system, lines 642-648, up to the first barrier of Exchange_Boundaries
Fill(t) ==
  /\ pc[t].at = "fill"
  /\ kv' = [kv EXCEPT ![t].kpm1 =
              SetCol(@, 0, [i \in Cells(geo) |->
                              IF IsBulk(geo, i) THEN aux_wr(GlobalOf(geo, t, i)) ELSE @.v[1][i]])]
  /\ pc' = [pc EXCEPT ![t].at = "bar0", ![t].e = @ + 1]
  /\ UNCHANGED <<geo, ham, ghosts, Gghosts, pub>>
  /\ UNCHANGED others

\* line 554: the barrier between the copy to the shared region and the reads
AfterPublishNoBarrier == "read"
AfterPublish == "bar1"

\* lines 530-553 for axis d: stage the faces and copy them to the shared region
Publish(t) ==
  /\ pc[t].at = "pub"
  /\ LET st == StageFaces(geo, pc[t].d, Col(kv[t].kpm1), ghosts[t])
     IN /\ ghosts' = [ghosts EXCEPT ![t] = st]
        /\ Gghosts' = PublishSlice(geo, pc[t].d, t, st, Gghosts)
  /\ pub' = [pub EXCEPT ![t] = <<pc[t].e, pc[t].d>>]
  /\ pc' = [pc EXCEPT ![t].at = AfterPublish]
  /\ UNCHANGED <<geo, ham, kv>>
  /\ UNCHANGED others

\* line 560: the barrier between the reads and the writes of the ghost faces
AfterReadNoBarrier == "write"
AfterRead == "bar2"

\* lines 555-558
Read(t) ==
  /\ pc[t].at = "read"
  /\ ghosts' = [ghosts EXCEPT ![t] = ReadNeighbours(geo, pc[t].d, t, @, Gghosts)]
  /\ pc' = [pc EXCEPT ![t].at = AfterRead]
  /\ UNCHANGED <<geo, ham, kv, Gghosts, pub>>
  /\ UNCHANGED others

\* where Exchange_Boundaries returns to
AfterExchange(p) ==
  IF p.n = 0 THEN "check" ELSE IF p.n < MaxMul THEN "mul" ELSE "done"

\* lines 561-577, then the next axis or the return
Write(t) ==
  /\ pc[t].at = "write"
  /\ kv' = [kv EXCEPT ![t].kpm1 =
              SetCol(@, @.index, WriteGhostFaces(geo, pc[t].d, Col(@), ghosts[t]))]
  /\ pc' = [pc EXCEPT ![t].at = IF pc[t].d = 0 THEN "pub" ELSE AfterExchange(pc[t]),
                      ![t].d = IF pc[t].d = 0 THEN 1 ELSE 0]
  /\ UNCHANGED <<geo, ham, ghosts, Gghosts, pub>>
  /\ UNCHANGED others

\* #pragma omp barrier (lines 522, 554, 560): released when the whole team has arrived
AtBarrier(p) == p.at \in {"bar0", "bar1", "bar2"}
PastBarrier(at) ==
  CASE at = "bar0" -> "pub" [] at = "bar1" -> "read" [] at = "bar2" -> "write" [] OTHER -> at

Barrier ==
  /\ \A t \in Threads(geo) : AtBarrier(pc[t])
  /\ pc' = [t \in Threads(geo) |-> [pc[t] EXCEPT !.at = PastBarrier(@)]]
  /\ UNCHANGED <<geo, ham, kv, ghosts, Gghosts, pub>>
  /\ UNCHANGED others

\* test_boundaries_system, lines 652-671: the cells that differ from aux_wr(z.index)
Mismatches(g, t, phi) == {i \in Cells(g) : phi[i] # aux_wr(GlobalOf(g, t, i))}

Check(t) ==
  /\ pc[t].at = "check"
  /\ pc' = [pc EXCEPT ![t].at = IF MaxMul > 0 THEN "mul" ELSE "done",
                      ![t].bad = Cardinality(Mismatches(geo, t, kv[t].kpm1.v[1]))]
  /\ UNCHANGED <<geo, ham, kv, ghosts, Gghosts, pub>>
  /\ UNCHANGED others

\* Multiply<MULT>, lines 109-256, up to the first barrier of Exchange_Boundaries;
\* MULT = 0 for the first call and 1 afterwards
Multiply(t) ==
  /\ pc[t].at = "mul"
  /\ kv' = [kv EXCEPT ![t].kpm1 =
              MultiplyLocal(geo, ham, @, IF pc[t].n = 0 THEN 0 ELSE 1)]
  /\ pc' = [pc EXCEPT ![t].at = "bar0", ![t].n = @ + 1, ![t].e = @ + 1]
  /\ UNCHANGED <<geo, ham, ghosts, Gghosts, pub>>
  /\ UNCHANGED others

Next ==
  \/ \E t \in Threads(geo) : Fill(t)
  \/ \E t \in Threads(geo) : Publish(t)
  \/ \E t \in Threads(geo) : Read(t)
  \/ \E t \in Threads(geo) : Write(t)
  \/ \E t \in Threads(geo) : Check(t)
  \/ \E t \in Threads(geo) : Multiply(t)
  \/ Barrier

Spec == Init /\ [][Next]_vars


(***************************************************************************)
(* Properties of the halo exchange                                         *)
(***************************************************************************)
\* every thread has returned from its (n+1)-th Exchange_Boundaries, none has gone on
AllReturned(n) ==
  \A t \in Threads(geo) : pc[t].n = n /\ pc[t].at \in {"check", "mul", "done"}

\* the bulk cell that owns global site z, as <<thread, cell>>
OwnerOf(g, z) ==
  CHOOSE o \in Threads(g) \X BulkCells(g) : GlobalOf(g, o[1], o[2]) = z

\* every cell of the exchanged column mirrors the bulk cell owning its global site
Mirrors(g, vs) ==
  \A t \in Threads(g) : \A i \in Cells(g) :
     LET o == OwnerOf(g, GlobalOf(g, t, i))
     IN Col(vs[t].kpm1)[i] = Col(vs[o[1]].kpm1)[o[2]]

\* the ghost face of thread t on side b of axis d equals the bulk face of block[d][b]
FaceEqualsNeighbour(g, vs, t, d, b) ==
  \A i \in Cells(g) :
     LET x == LX(g, i)
         y == LY(g, i)
         onFace == IF d = 0
                   THEN /\ y >= NGHOSTS /\ y < Ld(g, 1) - NGHOSTS
                        /\ (IF b = 0 THEN x < NGHOSTS ELSE x >= Ld(g, 0) - NGHOSTS)
                   ELSE /\ x >= NGHOSTS /\ x < Ld(g, 0) - NGHOSTS
                        /\ (IF b = 0 THEN y < NGHOSTS ELSE y >= Ld(g, 1) - NGHOSTS)
         sh == IF b = 0 THEN ld(g, d) ELSE 0 - ld(g, d)
         j == IF d = 0 THEN LIndex(g, x + sh, y, LO(g, i)) ELSE LIndex(g, x, y + sh, LO(g, i))
     IN onFace => Col(vs[t].kpm1)[i] = Col(vs[block(g, t, d, b)].kpm1)[j]

\* C1: once every thread has returned from Exchange_Boundaries, every cell (bulk,
\* face ghosts, corner ghosts) of the exchanged column of every thread holds the
\* value of its wrapped global site, each ghost face equals the bulk face of the
\* neighbour on that side, and the test of test_boundaries_system finds no mismatch.
C1_ExchangeFillsGhosts ==
  /\ \A n \in 0 .. MaxMul : AllReturned(n) =>
        /\ Mirrors(geo, kv)
        /\ \A t \in Threads(geo) : \A d \in {0, 1} : \A b \in {0, 1} :
              FaceEqualsNeighbour(geo, kv, t, d, b)
  /\ AllReturned(0) => \A t \in Threads(geo) : Mismatches(geo, t, kv[t].kpm1.v[1]) = {}
  /\ \A t \in Threads(geo) : pc[t].bad = 0

C1_Witness ==
  /\ geo.nd = <<2, 2>> /\ geo.Orb = 2
  /\ \A t \in Threads(geo) : pc[t].at = "mul" /\ pc[t].n = 0

\* C3: a thread that is about to read the neighbour slices for axis d (lines 555-558)
\* finds that both neighbours have already written their slices for axis d of the
\* same exchange.
C3_PublishBeforeRead ==
  \A t \in Threads(geo) : pc[t].at = "read" =>
     \A b \in {0, 1} : pub[block(geo, t, pc[t].d, b)] = <<pc[t].e, pc[t].d>>

C3_Witness ==
  /\ nThreads(geo) >= 3
  /\ \E t \in Threads(geo) : pc[t].at = "read" /\ pc[t].d = 1 /\ pc[t].e = 2
  /\ \E t \in Threads(geo) : pc[t].at = "bar2" /\ pc[t].d = 1

(***************************************************************************)
(* The same sequence of calls by one thread on the undivided lattice       *)
(***************************************************************************)
Undivided(g) ==
  [nd |-> <<1, 1>>, lStr |-> <<g.lStr[1] * g.nd[1], g.lStr[2] * g.nd[2]>>, Orb |-> g.Orb]

\* Exchange_Boundaries executed by a team of one thread
ExchangeAlone(g, K) ==
  LET RECURSIVE Go(_)
      Go(d) ==
        IF d = 0 THEN [phi |-> Col(K), st |-> [k \in 0 .. (SliceSize(g) - 1) |-> 0]]
        ELSE LET p == Go(d - 1)
                 s1 == StageFaces(g, d - 1, p.phi, p.st)
                 G1 == PublishSlice(g, d - 1, 0, s1, s1)
                 s2 == ReadNeighbours(g, d - 1, 0, s1, G1)
             IN [phi |-> WriteGhostFaces(g, d - 1, p.phi, s2), st |-> s2]
  IN SetCol(K, K.index, Go(2).phi)

RefStart(g1) ==
  ExchangeAlone(g1, SetCol(NewVector(g1, 2), 0,
     [i \in Cells(g1) |-> IF IsBulk(g1, i) THEN aux_wr(GlobalOf(g1, 0, i)) ELSE 0]))

RefAfter(g1, h1, n) ==
  LET RECURSIVE Go(_)
      Go(k) == IF k = 0 THEN RefStart(g1)
               ELSE ExchangeAlone(g1, MultiplyLocal(g1, h1, Go(k - 1), IF k = 1 THEN 0 ELSE 1))
  IN Go(n)

\* the cell of the undivided lattice that holds global site z
RefCell(g, g1, z) ==
  LIndex(g1, (z % Lt(g, 0)) + NGHOSTS, ((z \div Lt(g, 0)) % Lt(g, 1)) + NGHOSTS,
         z \div (Lt(g, 0) * Lt(g, 1)))

SameAsUndivided(n) ==
  LET g1 == Undivided(geo)
      h1 == RegularHam(g1, ham.hr, ham.Anderson_orb_address, ham.U_Orbital)
      R == RefAfter(g1, h1, n)
  IN \A t \in Threads(geo) :
       /\ kv[t].kpm1.index = R.index
       /\ \A c \in 1 .. 2 : \A i \in BulkCells(geo) :
            kv[t].kpm1.v[c][i] = R.v[c][RefCell(geo, g1, GlobalOf(geo, t, i))]

\* C4: after Multiply<0> and k Multiply<1> by the whole team on the decomposed
\* lattice, the bulk cells of all threads hold what one thread computes with the
\* same calls on the undivided lattice of the same global size (regular
\* Hamiltonian, hoppings reaching at most NGHOSTS cells).
C4_TeamEqualsSingleThread ==
  \A n \in 1 .. MaxMul : AllReturned(n) => SameAsUndivided(n)

C4_Witness ==
  /\ nThreads(geo) = 4 /\ AllReturned(MaxMul)
  /\ \E t \in Threads(geo) : \E i \in BulkCells(geo) : Col(kv[t].kpm1)[i] # 0


(***************************************************************************)
(* Hamiltonians with structural disorder, vacancies and Anderson disorder  *)
(* on the domain of one thread.  The lists are the ones Multiply reads;    *)
(* they are filled here the way the Hamiltonian section describes them.    *)
(***************************************************************************)
MaxTilesMul == 2
MaxMemory == 3
MaxCalls == 4

SortedSeq(S) ==
  LET RECURSIVE Go(_)
      Go(R) == IF R = {} THEN <<>>
               ELSE LET m == CHOOSE x \in R : \A y \in R : x <= y
                    IN <<m>> \o Go(R \ {m})
  IN Go(S)

\* the impurity pattern: node 0 is the anchor, nodes 1, 2, 3 its +x, +y and -x neighbours
PatDx == <<0, 1, 0, -1>>
PatDy == <<0, 0, 1, 0>>
PatElement1 == <<0, 1, 0, 2, 0, 3>>
PatElement2 == <<1, 0, 2, 0, 3, 0>>
PatHopping == <<1, 1, 2, 2, 1, 1>>
PatElement == <<1>>
PatU == <<1>>

node_position(g) == [n \in 1 .. Len(PatDx) |-> PatDx[n] + PatDy[n] * Ld(g, 0)]
DefectNodes(g, a) == {a + node_position(g)[n] : n \in 1 .. Len(PatDx)}

\* tiles that receive a bond of a pattern anchored in another tile
CrossTiles(g, anchors) ==
  {TileOf(g, a + node_position(g)[PatElement1[k] + 1]) :
     a \in anchors, k \in 1 .. Len(PatElement1)}
  \ {s \in 0 .. (NStr(g) - 1) :
       \A a \in anchors : \A k \in 1 .. Len(PatElement1) :
          TileOf(g, a + node_position(g)[PatElement1[k] + 1]) = s => TileOf(g, a) = s}

BorderBond(e1, e2, t, dx, dy) == [e1 |-> e1, e2 |-> e2, t |-> t, dx |-> dx, dy |-> dy]

\* cfg = [anchors, vac, bb, bo]: anchors of the pattern, vacancy cells, border bonds
\* and border on-site terms <<cell, U>>
Defect(g, cfg) ==
  LET d(k, a) == Axis(PatDx[PatElement2[k] + 1] - PatDx[PatElement1[k] + 1],
                      PatDy[PatElement2[k] + 1] - PatDy[PatElement1[k] + 1], a)
  IN [ node_position |-> node_position(g),
       element1 |-> PatElement1, element2 |-> PatElement2, hopping |-> PatHopping,
       element |-> PatElement, U |-> PatU,
       V |-> [a \in 1 .. 2 |-> [k \in 1 .. Len(PatHopping) |-> d(k, a - 1) * PatHopping[k]]],
       V2 |-> [a \in 1 .. 2 |-> [b \in 1 .. 2 |-> [k \in 1 .. Len(PatHopping) |->
                 (0 - d(k, a - 1)) * d(k, b - 1) * PatHopping[k]]]],
       position |-> [s \in 1 .. NStr(g) |->
                       SortedSeq({a \in cfg.anchors : TileOf(g, a) = s - 1})],
       border_element1 |-> [n \in 1 .. Len(cfg.bb) |-> cfg.bb[n].e1],
       border_element2 |-> [n \in 1 .. Len(cfg.bb) |-> cfg.bb[n].e2],
       border_hopping |-> [n \in 1 .. Len(cfg.bb) |-> cfg.bb[n].t],
       border_V |-> [a \in 1 .. 2 |-> [n \in 1 .. Len(cfg.bb) |->
                       Axis(cfg.bb[n].dx, cfg.bb[n].dy, a - 1) * cfg.bb[n].t]],
       border_V2 |-> [a \in 1 .. 2 |-> [b \in 1 .. 2 |-> [n \in 1 .. Len(cfg.bb) |->
                       (0 - Axis(cfg.bb[n].dx, cfg.bb[n].dy, a - 1))
                       * Axis(cfg.bb[n].dx, cfg.bb[n].dy, b - 1) * cfg.bb[n].t]]],
       border_element |-> [n \in 1 .. Len(cfg.bo) |-> cfg.bo[n][1]],
       border_U |-> [n \in 1 .. Len(cfg.bo) |-> cfg.bo[n][2]] ]

DisorderedHam(g, hr, addr, uorb, cfg) ==
  LET touched == UNION {DefectNodes(g, a) : a \in cfg.anchors}
                 \cup {cfg.bb[n].e1 : n \in 1 .. Len(cfg.bb)}
                 \cup {cfg.bo[n][1] : n \in 1 .. Len(cfg.bo)}
      cross == CrossTiles(g, cfg.anchors)
  IN [ hr |-> hr,
       Anderson_orb_address |-> addr,
       U_Anderson |-> [i \in Cells(g) |-> (i % 3) - 1],
       U_Orbital |-> uorb,
       hd |-> IF cfg.anchors = {} /\ cfg.bb = <<>> /\ cfg.bo = <<>> THEN <<>>
              ELSE <<Defect(g, cfg)>>,
       hV |-> [position |-> [s \in 1 .. NStr(g) |->
                  SortedSeq({v \in cfg.vac \ touched : TileOf(g, v) = s - 1})],
               vacancies_with_defects |-> SortedSeq(cfg.vac \cap touched)],
       cross_mozaic |-> [s \in 1 .. NStr(g) |-> (s - 1) \notin cross],
       cross_mozaic_indexes |-> SortedSeq(cross) ]

\* the disorder configurations of the single-domain runs
Disorders(g) ==
  LET c(x, y) == LIndex(g, x, y, 0)
      in0 == c(NGHOSTS + 1, NGHOSTS + 1)
      fwd == c(NGHOSTS + STRIDE - 1, NGHOSTS + 1)
      bwd == c(NGHOSTS + STRIDE, NGHOSTS + 1)
      wide == IF g.lStr[1] >= 2 THEN {in0, fwd, bwd} ELSE {in0}
      corner == c(NGHOSTS, NGHOSTS)
      bond == <<BorderBond(corner, c(NGHOSTS - 1, NGHOSTS), 2, -1, 0)>>
  IN { [anchors |-> {}, vac |-> {}, bb |-> <<>>, bo |-> <<>>],
       [anchors |-> {in0}, vac |-> {corner}, bb |-> <<>>, bo |-> <<>>],
       [anchors |-> wide, vac |-> {c(NGHOSTS + 2, NGHOSTS + 1)}, bb |-> <<>>, bo |-> <<>>],
       [anchors |-> wide, vac |-> {}, bb |-> bond, bo |-> <<<<corner, 1>>>>],
       [anchors |-> {}, vac |-> {corner}, bb |-> bond, bo |-> <<<<corner, 1>>>>] }

MulGeoms ==
  {[nd |-> <<1, 1>>, lStr |-> ls, Orb |-> o] :
     ls \in (1 .. MaxTilesMul) \X (1 .. MaxTilesMul), o \in 1 .. MaxOrb}

MulHams(g) ==
  {RegularHam(g, HrZero(g.Orb), [io1 \in 1 .. g.Orb |-> -2], [io1 \in 1 .. g.Orb |-> 0])}
  \cup {DisorderedHam(g, HrNearest(g.Orb), [io1 \in 1 .. g.Orb |-> -1],
                      [io1 \in 1 .. g.Orb |-> io1], cfg) : cfg \in Disorders(g)}
  \cup {DisorderedHam(g, HrFar(g.Orb), [io1 \in 1 .. g.Orb |-> io1 - 1],
                      [io1 \in 1 .. g.Orb |-> 0], cfg) : cfg \in Disorders(g)}


(***************************************************************************)
(* One thread, one vector: a sequence of Multiply calls, possibly ended by *)
(* a Velocity or Velocity2 call                                            *)
(***************************************************************************)
\* contents of the ring before the first call (every cell, ghosts included)
StartVector(g, M, idx) ==
  Eval([index |-> idx, memory |-> M,
        v |-> [c \in 1 .. M |-> [i \in Cells(g) |-> ((3 * i + 5 * c + (i \div 7)) % 5) - 2]]])

InitMul ==
  /\ geo \in MulGeoms
  /\ ham \in MulHams(geo)
  /\ \E M \in 2 .. MaxMemory : \E idx \in {0, M - 1} :
       mv = [at |-> "run", K |-> StartVector(geo, M, idx), prev |-> StartVector(geo, M, idx),
             start |-> StartVector(geo, M, idx), op |-> "none", MULT |-> 0, first |-> 0,
             c0 |-> 0, c1 |-> 0, sel |-> [kind |-> "V", a1 |-> 0, a2 |-> 0], n |-> 0]
  /\ kv = <<>> /\ ghosts = <<>> /\ Gghosts = <<>> /\ pc = <<>> /\ pub = <<>>
  /\ gs = [at |-> "off"]
  /\ job = [at |-> "off"]
  /\ sg = [at |-> "off"]

\* Multiply<MULT>: MULT is free in the first call and 1 afterwards
MulCall ==
  /\ mv.at = "run" /\ mv.n < MaxCalls
  /\ \E MULT \in (IF mv.n = 0 THEN {0, 1} ELSE {1}) :
       mv' = [mv EXCEPT !.K = ExchangeAlone(geo, MultiplyLocal(geo, ham, mv.K, MULT)),
                        !.prev = mv.K, !.op = "Multiply", !.MULT = MULT,
                        !.first = IF mv.n = 0 THEN MULT ELSE @, !.n = @ + 1]
  /\ UNCHANGED <<geo, ham, kv, ghosts, Gghosts, pc, pub, gs, sg, job>>

VelCallTo(sel, name) ==
  /\ mv.at = "run" /\ mv.n < MaxCalls
  /\ LET c0 == mv.K.index
         c1 == (mv.K.index + 1) % mv.K.memory
     IN mv' = [mv EXCEPT !.K = ExchangeAlone(geo, VelocityLocal(geo, ham, mv.K, c0, c1, sel)),
                         !.prev = mv.K, !.op = name, !.sel = sel, !.c0 = c0, !.c1 = c1,
                         !.n = @ + 1, !.at = "done"]
  /\ UNCHANGED <<geo, ham, kv, ghosts, Gghosts, pc, pub, gs, sg, job>>

\* Velocity(v.col(index), v.col(index+1), axis)
VelCall == \E a \in {0, 1} : VelCallTo([kind |-> "V", a1 |-> a, a2 |-> 0], "Velocity")

\* Velocity2(v.col(index), v.col(index+1), axis1, axis2)
Vel2Call ==
  \E a \in {0, 1} : \E b \in {0, 1} :
     VelCallTo([kind |-> "V2", a1 |-> a, a2 |-> b], "Velocity2")

NextMul == MulCall \/ VelCall \/ Vel2Call

SpecMul == InitMul /\ [][NextMul]_vars

(***************************************************************************)
(* The Hamiltonian as a matrix: (H psi)[i] as a sum over everything that   *)
(* names cell i as its target                                              *)
(***************************************************************************)
IsVacancy(g, h, i) ==
  \/ \E s \in 1 .. NStr(g) : \E k \in 1 .. Len(h.hV.position[s]) : h.hV.position[s][k] = i
  \/ \E k \in 1 .. Len(h.hV.vacancies_with_defects) : h.hV.vacancies_with_defects[k] = i

OnSite(g, h, i) ==
  LET io == LO(g, i)
      a == h.Anderson_orb_address[io + 1]
  IN IF a >= 0 THEN h.U_Anderson[i - (a - io) * Nd(g)]
     ELSE IF a = -1 THEN h.U_Orbital[io + 1] ELSE 0

HPsi(g, h, psi, i) ==
  LET io == LO(g, i)
      reg == SeqSum([ib \in 1 .. Len(h.hr[io + 1]) |->
                       h.hr[io + 1][ib].t * psi[i + distance(g, io, h.hr[io + 1][ib])]])
      dfc == SeqSum([id \in 1 .. Len(h.hd) |->
               LET df == h.hd[id] IN
               SeqSum([s \in 1 .. NStr(g) |->
                 SeqSum([n \in 1 .. Len(df.position[s]) |->
                   LET ip == df.position[s][n] IN
                   SeqSum([k \in 1 .. Len(df.hopping) |->
                     IF ip + df.node_position[df.element1[k] + 1] = i
                     THEN df.hopping[k] * psi[ip + df.node_position[df.element2[k] + 1]]
                     ELSE 0])
                   + SeqSum([k \in 1 .. Len(df.U) |->
                       IF ip + df.node_position[df.element[k] + 1] = i
                       THEN df.U[k] * psi[i] ELSE 0])])])])
      brd == SeqSum([id \in 1 .. Len(h.hd) |->
               LET df == h.hd[id] IN
               SeqSum([n \in 1 .. Len(df.border_element1) |->
                 IF df.border_element1[n] = i
                 THEN df.border_hopping[n] * psi[df.border_element2[n]] ELSE 0])
               + SeqSum([n \in 1 .. Len(df.border_element) |->
                   IF df.border_element[n] = i THEN df.border_U[n] * psi[i] ELSE 0])])
  IN OnSite(g, h, i) * psi[i] + reg + dfc + brd

\* C2: after Multiply<MULT> every non-vacancy bulk cell i of the new slot holds
\* (MULT+1)*(H psi_prev1)[i] - MULT*psi_prev2[i], psi_prev1 and psi_prev2 being the
\* slots (index-1) mod M and (index-2) mod M as they were before the call, and H the
\* sum of on-site term, regular hoppings, intra-tile and border structural terms.
C2_MultiplyIsRecursion ==
  mv.at # "off" /\ mv.op = "Multiply" =>
    LET M == mv.K.memory
        idx == (mv.prev.index + 1) % M
        p1 == mv.prev.v[((M + idx - 1) % M) + 1]
        p2 == mv.prev.v[((M + idx - 2) % M) + 1]
    IN /\ mv.K.index = idx
       /\ \A i \in BulkCells(geo) :
            ~IsVacancy(geo, ham, i) =>
              mv.K.v[idx + 1][i] = (mv.MULT + 1) * HPsi(geo, ham, p1, i) - mv.MULT * p2[i]

C2_Witness ==
  /\ mv.at # "off" /\ mv.op = "Multiply" /\ mv.MULT = 1 /\ mv.n = 2
  /\ mv.K.memory = 3 /\ geo.lStr = <<2, 2>> /\ geo.Orb = 2
  /\ ham.cross_mozaic_indexes # <<>> /\ ham.hd # <<>>
  /\ Len(ham.hd[1].border_element1) > 0
  /\ \E i \in BulkCells(geo) : mv.K.v[mv.K.index + 1][i] # 0


\* the column the last call wrote
Written == IF mv.op = "Multiply" THEN mv.K.v[mv.K.index + 1] ELSE mv.K.v[mv.c0 + 1]

BorderTargets(h) ==
  UNION {{h.hd[id].border_element1[n] : n \in 1 .. Len(h.hd[id].border_element1)}
         \cup {h.hd[id].border_element[n] : n \in 1 .. Len(h.hd[id].border_element)} :
         id \in 1 .. Len(h.hd)}

\* what the code does guarantee: a vacancy no border list names holds zero
C5_UntouchedVacanciesAreZero ==
  mv.at # "off" /\ mv.op # "none" =>
    \A i \in Cells(geo) :
       IsVacancy(geo, ham, i) /\ i \notin BorderTargets(ham) => Written[i] = 0

C5_Witness ==
  /\ mv.at # "off" /\ mv.op = "Velocity"
  /\ ham.hV.vacancies_with_defects # <<>>
  /\ ham.hd # <<>> /\ Len(ham.hd[1].border_element1) = 0
  /\ \E i \in Cells(geo) : IsVacancy(geo, ham, i) /\ mv.prev.v[mv.c0 + 1][i] # 0

IsZeroHam(h) ==
  /\ h.hd = <<>>
  /\ \A io1 \in DOMAIN h.hr : h.hr[io1] = <<>> /\ h.Anderson_orb_address[io1] = -2

\* C6: with H = 0 and a 2-column ring holding psi_0 in column 0 with index 0, the
\* calls Multiply<0>, Multiply<1>, Multiply<1>, ... write 0, -psi_0, 0, psi_0, ...
\* (period 4) into the successive new columns (bulk cells).
C6_ZeroHamPeriodFour ==
  ( /\ mv.at # "off" /\ mv.op = "Multiply" /\ IsZeroHam(ham)
    /\ mv.K.memory = 2 /\ mv.start.index = 0 /\ mv.first = 0 ) =>
    /\ mv.K.index = mv.n % 2
    /\ \A i \in BulkCells(geo) :
         mv.K.v[mv.K.index + 1][i] =
           CASE mv.n % 4 = 2 -> 0 - mv.start.v[1][i]
             [] mv.n % 4 = 0 -> mv.start.v[1][i]
             [] OTHER -> 0

C6_Witness ==
  /\ mv.at # "off" /\ mv.op = "Multiply" /\ IsZeroHam(ham)
  /\ mv.K.memory = 2 /\ mv.start.index = 0 /\ mv.first = 0 /\ mv.n = 4
  /\ \E i \in BulkCells(geo) : mv.K.v[mv.K.index + 1][i] # 0



(***************************************************************************)
(* The moment accumulators Gamma1D, Gamma2D and Gamma3D of                 *)
(* src/unnamed/part_000, run by the whole team.  A step of the team is one *)
(* statement of the accumulator executed by every thread, collective calls *)
(* (Exchange_Boundaries, the reductions) included.                         *)
(***************************************************************************)
MEMORY == 10
MaxGammaThreads == 2
MaxSamples == 2
NPatterns == 2

Gcd(a, b) ==
  LET RECURSIVE Go(_, _)
      Go(x, y) == IF y = 0 THEN x ELSE Go(y, x % y)
  IN Go(IF a < 0 THEN 0 - a ELSE a, IF b < 0 THEN 0 - b ELSE b)

\* exact quotient n/d in lowest terms with positive denominator
Frac(n, d) ==
  LET k == Gcd(n, d)
      s == IF d < 0 THEN 0 - 1 ELSE 1
  IN IF k = 0 THEN <<0, 1>> ELSE <<s * (n \div k), s * (d \div k)>>

\* the update with the divisor 2 whatever the count: an exponential average
WelfordHalf(mu, x, average) == Frac(mu[1] + x * mu[2], mu[2] * 2)

\* gamma(ind) += (x - gamma(ind)) / value_type(average + 1)
Welford(mu, x, average) ==
  Frac(mu[1] * (average + 1) + (x * mu[2] - mu[1]), mu[2] * (average + 1))

\* int factor = 1 - (num_velocities % 2)*2
num_velocities(indices) == SeqSum([k \in 1 .. Len(indices) |-> Len(indices[k])])
factor(indices) == 1 - (num_velocities(indices) % 2) * 2

\* Exchange_Boundaries of one column on every thread of the team
TeamExchange(g, cols) ==
  LET RECURSIVE Pub(_, _, _, _)
      Pub(d, s1, G, t) ==
        IF t = nThreads(g) THEN G ELSE Pub(d, s1, PublishSlice(g, d, t, s1[t], G), t + 1)
      RECURSIVE Go(_)
      Go(d) ==
        IF d = 0
        THEN Eval([phi |-> cols,
                   st |-> [t \in Threads(g) |-> [k \in 0 .. (SliceSize(g) - 1) |-> 0]]])
        ELSE LET p == Go(d - 1)
                 s1 == Eval([t \in Threads(g) |-> StageFaces(g, d - 1, p.phi[t], p.st[t])])
                 G1 == Pub(d - 1, s1, Eval([k \in 0 .. (SliceSize(g) * nThreads(g) - 1) |-> 0]), 0)
                 s2 == Eval([t \in Threads(g) |-> ReadNeighbours(g, d - 1, t, s1[t], G1)])
             IN Eval([phi |-> [t \in Threads(g) |-> WriteGhostFaces(g, d - 1, p.phi[t], s2[t])],
                      st |-> s2])
  IN Go(2).phi

\* x.Exchange_Boundaries() on every thread: column index of vector name
ExchangeVector(g, vs, name) ==
  Eval(LET new == TeamExchange(g, Eval([t \in Threads(g) |-> Col(vs[t][name])]))
       IN [t \in Threads(g) |-> [vs[t] EXCEPT ![name] = SetCol(@, @.index, new[t])]])

\* x.Multiply<MULT>() on every thread (Exchange_Boundaries is its last statement)
TeamMultiply(g, h, vs, name, MULT) ==
  ExchangeVector(g, Eval([t \in Threads(g) |->
                            [vs[t] EXCEPT ![name] = MultiplyLocal(g, h, @, MULT)]]), name)

\* cheb_iteration(&x, n): the first iteration is Multiply<0>, the others Multiply<1>
cheb_iteration(g, h, vs, name, n) ==
  TeamMultiply(g, h, vs, name, IF n = 0 THEN 0 ELSE 1)

\* dst.Velocity / Velocity2 (dst.col(dst.index), src.col(src.index), axes) on every thread
TeamVelocity(g, h, vs, dst, src, sel) ==
  ExchangeVector(g,
    Eval([t \in Threads(g) |->
            [vs[t] EXCEPT ![dst] =
               SetCol(@, @.index,
                      RunOps(<<Col(vs[t][dst]), Col(vs[t][src])>>,
                             VelocityOps(g, h, sel), 1, 2, 2)[1])]]),
    dst)

\* generalized_velocity(&dst, &src, indices, pos)
generalized_velocity(g, h, vs, dst, src, indices, pos) ==
  LET ax == indices[pos + 1]
  IN CASE Len(ax) = 0 ->
            [t \in Threads(g) |-> [vs[t] EXCEPT ![dst] = SetCol(@, @.index, Col(vs[t][src]))]]
       [] Len(ax) = 1 ->
            TeamVelocity(g, h, vs, dst, src, [kind |-> "V", a1 |-> ax[1], a2 |-> 0])
       [] OTHER ->
            TeamVelocity(g, h, vs, dst, src, [kind |-> "V2", a1 |-> ax[1], a2 |-> ax[2]])

\* empty_ghosts left out: the column is returned as it is
empty_ghostsSkip(g, col) == col

\* KPM_Vector<T,2>::empty_ghosts: v(.., mem_index) *= 0 on the four NGHOSTS-wide faces
empty_ghosts(g, col) ==
  Eval([i \in Cells(g) |->
          IF \/ LY(g, i) < NGHOSTS \/ LY(g, i) > Ld(g, 1) - 1 - NGHOSTS
             \/ LX(g, i) < NGHOSTS \/ LX(g, i) > Ld(g, 0) - 1 - NGHOSTS
          THEN col[i] * 0
          ELSE col[i]])

EmptyGhosts(g, vs, name, c) ==
  Eval([t \in Threads(g) |-> [vs[t] EXCEPT ![name] = SetCol(@, c, empty_ghosts(g, @.v[c + 1]))]])

\* simul.rnd.init() / sqrt(Sizet - count): the amplitude drawn for global site z
\* in the draw numbered p
RandomAmplitude(p, z) == (((p + 2) * z + p * p + (z \div 3)) % 3) - 1

\* KPM_Vector<T,2>::initiate_vector: index = 0, the bulk of column 0 is drawn, the
\* vacancies of every tile are set to zero; ghost cells keep what they held
initiate_vector(g, h, vs, name, p) ==
  Eval([t \in Threads(g) |->
          [vs[t] EXCEPT ![name] =
             [@ EXCEPT !.index = 0,
                       !.v[1] = [i \in Cells(g) |->
                                   IF \E s \in 1 .. NStr(g) :
                                        \E j \in 1 .. Len(h.hV.position[s]) : h.hV.position[s][j] = i
                                   THEN 0
                                   ELSE IF IsBulk(g, i) THEN RandomAmplitude(p, GlobalOf(g, t, i))
                                   ELSE @[i]]]]])

SetIndex(g, vs, name, c) ==
  Eval([t \in Threads(g) |-> [vs[t] EXCEPT ![name].index = c]])

\* y.v.col(0) = x.v.col(0)
CopyCol0(g, vs, dst, src) ==
  Eval([t \in Threads(g) |-> [vs[t] EXCEPT ![dst] = SetCol(@, 0, vs[t][src].v[1])]])

\* x.v.col(0) = factor * x.v.col(0)
ScaleCol0(g, vs, name, f) ==
  Eval([t \in Threads(g) |->
          [vs[t] EXCEPT ![name] = SetCol(@, 0, [i \in Cells(g) |-> f * @.v[1][i]])]])

\* sum over ii of L.block(ii, 0, Ld[0], 1).adjoint() * R.block(ii, 0, Ld[0], 1): every
\* cell of the local array, ghost cells included (real T)
DotRange(L, R, lo, hi) ==
  LET RECURSIVE Go(_, _)
      Go(a, b) ==
        IF b < a THEN 0
        ELSE IF a = b THEN L[a] * R[a]
        ELSE Go(a, (a + b) \div 2) + Go(((a + b) \div 2) + 1, b)
  IN Go(lo, hi)

Dot(g, L, R) == DotRange(L, R, 0, Sized(g) - 1)

\* a hopping table with H*H = 1, so that every Chebyshev vector stays bounded:
\* orbital 0 of a site is bonded to orbital 1 of the site one cell further along
\* both axes
HrDimer == <<<<Hop(1, 1, 1, 1)>>, <<Hop(-1, -1, 0, 1)>>>>

GammaGeoms ==
  {[nd |-> nd, lStr |-> <<1, 1>>, Orb |-> 2] :
     nd \in {x \in (1 .. MaxGammaThreads) \X (1 .. MaxGammaThreads) :
               x[1] * x[2] <= MaxGammaThreads}}

\* the geometries with the largest team
TeamGeoms == {g \in GammaGeoms : nThreads(g) = MaxGammaThreads}

GammaHam(g) ==
  RegularHam(g, HrDimer, [io1 \in 1 .. g.Orb |-> -1], [io1 \in 1 .. g.Orb |-> 0])

\* the (NDisorder, NRandomV) pairs of a run
SampleCounts ==
  {c \in (1 .. MaxSamples) \X (1 .. MaxSamples) : c[1] * c[2] = MaxSamples}

\* Eigen::Array<T,-1,-1>::Zero(1, size), with the history of what was deposited:
\* hist[ind] = <<sum of the deposited values, number of deposits>>
ZeroGamma(size) == [ind \in 0 .. (size - 1) |-> <<0, 1>>]
ZeroHistory(size) == [ind \in 0 .. (size - 1) |-> <<0, 0>>]

GammaStart(fn, N, indices, c, owners) ==
  [at |-> "vector", fn |-> fn, N |-> N, indices |-> indices,
   NDisorder |-> c[1], NRandomV |-> c[2], disorder |-> 0, randV |-> 0, average |-> 0,
   n |-> 0, i |-> 0, m |-> 0, p |-> 0, dots |-> 0, last |-> "none",
   gamma |-> [t \in owners |-> ZeroGamma(SeqProd(N))],
   hist |-> [t \in owners |-> ZeroHistory(SeqProd(N))]]

\* one deposit gamma(ind) += (x - gamma(ind)) / value_type(average + 1)
Deposit(acc, ind, x, average) ==
  [gamma |-> [acc.gamma EXCEPT ![ind] = Welford(@, x, average)],
   hist |-> [acc.hist EXCEPT ![ind] = <<@[1] + x, @[2] + 1>>]]

\* loop bookkeeping at the end of a random vector: average++, then randV and disorder
EndVector(s, after) ==
  LET last == s.randV + 1 = s.NRandomV
      over == last /\ s.disorder + 1 = s.NDisorder
  IN [s EXCEPT !.average = @ + 1,
               !.randV = IF last THEN 0 ELSE @ + 1,
               !.disorder = IF last THEN @ + 1 ELSE @,
               !.at = IF over THEN after ELSE "vector",
               !.last = "average"]

(***************************************************************************)
(* Gamma1D, lines 293-364                                                  *)
(***************************************************************************)
Indices1D == {<<>>, <<<<>>>>, <<<<0>>>>, <<<<0, 1>>>>}
Moments1D == {2, 4}

\* lines 321-331: the random vector, its copy with exchanged ghosts, the optional
\* velocity, the sign factor and the zeroed ghosts of the left vector
Gamma1D_Vector ==
  /\ gs.at = "vector" /\ gs.fn = "Gamma1D"
  /\ \E p \in 1 .. NPatterns :
       LET v1 == initiate_vector(geo, ham, kv, "kpm0", p)
           v2 == CopyCol0(geo, SetIndex(geo, v1, "kpm1", 0), "kpm1", "kpm0")
           v3 == ExchangeVector(geo, v2, "kpm1")
           v4 == IF Len(gs.indices) # 0
                 THEN generalized_velocity(geo, ham, v3, "kpm1", "kpm0", gs.indices, 0)
                 ELSE v3
           v5 == ScaleCol0(geo, v4, "kpm0", factor(gs.indices))
       IN kv' = EmptyGhosts(geo, v5, "kpm0", 0)
  /\ gs' = [gs EXCEPT !.at = "first", !.last = "vector"]
  /\ UNCHANGED <<geo, ham, ghosts, Gghosts, pc, pub, mv, sg, job>>

\* tmp = sum of kpm0.block(ii,0,Ld[0],1).adjoint() * kpm1.block(ii,0,Ld[0],2) and
\* gamma.block(0,m,1,2) += (tmp - gamma.block(0,m,1,2)) / value_type(average + 1)
Deposit1D(s, vs, m) ==
  [t \in DOMAIN vs |->
     LET a0 == [gamma |-> s.gamma[t], hist |-> s.hist[t]]
         a1 == Deposit(a0, m, Dot(geo, vs[t].kpm0.v[1], vs[t].kpm1.v[1]), s.average)
     IN Deposit(a1, m + 1, Dot(geo, vs[t].kpm0.v[1], vs[t].kpm1.v[2]), s.average)]

\* lines 335-343: Multiply<0>, the dot products with columns 0 and 1, moments 0 and 1
Gamma1D_First ==
  /\ gs.at = "first" /\ gs.fn = "Gamma1D"
  /\ LET vs == TeamMultiply(geo, ham, kv, "kpm1", 0)
         acc == Deposit1D(gs, vs, 0)
     IN /\ kv' = vs
        /\ gs' = [gs EXCEPT !.at = "pairs", !.m = 2, !.last = "dot", !.dots = @ + 1,
                            !.gamma = [t \in DOMAIN vs |-> acc[t].gamma],
                            !.hist = [t \in DOMAIN vs |-> acc[t].hist]]
  /\ UNCHANGED <<geo, ham, ghosts, Gghosts, pc, pub, mv, sg, job>>

\* lines 346-355: one pass of the loop over m
Gamma1D_Pair ==
  /\ gs.at = "pairs" /\ gs.fn = "Gamma1D" /\ gs.m < gs.N[1]
  /\ LET vs == TeamMultiply(geo, ham, TeamMultiply(geo, ham, kv, "kpm1", 1), "kpm1", 1)
         acc == Deposit1D(gs, vs, gs.m)
     IN /\ kv' = vs
        /\ gs' = [gs EXCEPT !.m = @ + 2, !.last = "dot", !.dots = @ + 1,
                            !.gamma = [t \in DOMAIN vs |-> acc[t].gamma],
                            !.hist = [t \in DOMAIN vs |-> acc[t].hist]]
  /\ UNCHANGED <<geo, ham, ghosts, Gghosts, pc, pub, mv, sg, job>>

\* line 358 and the heads of the two outer loops
Gamma1D_EndVector ==
  /\ gs.at = "pairs" /\ gs.fn = "Gamma1D" /\ gs.m >= gs.N[1]
  /\ gs' = EndVector(gs, "store")
  /\ UNCHANGED <<geo, ham, kv, ghosts, Gghosts, pc, pub, mv, sg, job>>

(***************************************************************************)
(* Gamma2D, lines 19-135                                                   *)
(***************************************************************************)
Indices2D == {<<<<>>, <<>>>>, <<<<0>>, <<1>>>>, <<<<0, 1>>, <<1>>>>}
Moments2D == {<<MEMORY, MEMORY>>}

\* lines 82-86: the random vector with exchanged ghosts and the first velocity
Gamma2D_Vector ==
  /\ gs.at = "vector" /\ gs.fn = "Gamma2D"
  /\ \E p \in 1 .. NPatterns :
       LET v1 == ExchangeVector(geo, initiate_vector(geo, ham, kv, "kpm0", p), "kpm0")
       IN kv' = generalized_velocity(geo, ham, SetIndex(geo, v1, "kpm1", 0),
                                     "kpm1", "kpm0", gs.indices, 0)
  /\ gs' = [gs EXCEPT !.at = "left", !.n = 0, !.i = 0, !.last = "vector"]
  /\ UNCHANGED <<geo, ham, ghosts, Gghosts, pc, pub, mv, sg, job>>

\* lines 93-101, one pass: the next Chebyshev vector of kpm1, its velocity into
\* column i % MEMORY of kpm3, the ghosts of that column zeroed
Gamma2D_Left ==
  /\ gs.at = "left" /\ gs.fn = "Gamma2D"
  /\ LET v1 == IF gs.i # 0 THEN cheb_iteration(geo, ham, kv, "kpm1", gs.i - 1) ELSE kv
         v2 == generalized_velocity(geo, ham, SetIndex(geo, v1, "kpm3", gs.i % MEMORY),
                                    "kpm3", "kpm1", gs.indices, 1)
     IN kv' = EmptyGhosts(geo, v2, "kpm3", gs.i % MEMORY)
  /\ gs' = [gs EXCEPT !.i = @ + 1, !.last = "left",
                      !.at = IF gs.i + 1 < gs.n + MEMORY THEN "left" ELSE "copy"]
  /\ UNCHANGED <<geo, ham, ghosts, Gghosts, pc, pub, mv, sg, job>>

\* lines 104-105: kpm2.set_index(0); kpm2.v.col(0) = kpm0.v.col(0)
Gamma2D_Copy ==
  /\ gs.at = "copy" /\ gs.fn = "Gamma2D"
  /\ kv' = CopyCol0(geo, SetIndex(geo, kv, "kpm2", 0), "kpm2", "kpm0")
  /\ gs' = [gs EXCEPT !.at = "right", !.m = 0, !.i = 0, !.last = "copy"]
  /\ UNCHANGED <<geo, ham, ghosts, Gghosts, pc, pub, mv, sg, job>>

\* lines 109-113, one pass
Gamma2D_Right ==
  /\ gs.at = "right" /\ gs.fn = "Gamma2D"
  /\ kv' = IF gs.i # 0 THEN cheb_iteration(geo, ham, kv, "kpm2", gs.i - 1) ELSE kv
  /\ gs' = [gs EXCEPT !.i = @ + 1, !.last = "right",
                      !.at = IF gs.i + 1 < gs.m + MEMORY THEN "right" ELSE "dot"]
  /\ UNCHANGED <<geo, ham, ghosts, Gghosts, pc, pub, mv, sg, job>>

\* tmp(i, j) of lines 116-118 on one thread
Tmp(g, L, R, i, j) == Dot(g, L.v[i + 1], R.v[j + 1])

\* lines 121-126: for j, for i: ind = (m+j)*N0 + n+i and the update of gamma(ind)
Deposit2D(s, L, R, t) ==
  LET RECURSIVE Go(_, _, _)
      Go(acc, lo, hi) ==
        IF lo = hi
        THEN LET j == lo \div MEMORY
                 i == lo % MEMORY
             IN Deposit(acc, (s.m + j) * s.N[1] + s.n + i, Tmp(geo, L, R, i, j), s.average)
        ELSE LET half == Go(acc, lo, (lo + hi) \div 2)
             IN IF half = half THEN Go(half, ((lo + hi) \div 2) + 1, hi) ELSE acc
  IN Go([gamma |-> s.gamma[t], hist |-> s.hist[t]], 0, MEMORY * MEMORY - 1)

\* lines 116-127 and the heads of the loops over m and n
Gamma2D_Dot ==
  /\ gs.at = "dot" /\ gs.fn = "Gamma2D"
  /\ LET acc == Eval([t \in Threads(geo) |-> Deposit2D(gs, kv[t].kpm3, kv[t].kpm2, t)])
         moreM == gs.m + MEMORY < gs.N[2]
         moreN == gs.n + MEMORY < gs.N[1]
     IN gs' = [gs EXCEPT !.gamma = [t \in Threads(geo) |-> acc[t].gamma],
                         !.hist = [t \in Threads(geo) |-> acc[t].hist],
                         !.last = "dot", !.dots = @ + 1,
                         !.m = IF moreM THEN @ + MEMORY ELSE @,
                         !.n = IF moreM \/ ~moreN THEN @ ELSE @ + MEMORY,
                         !.i = IF moreM THEN gs.m + MEMORY
                               ELSE IF moreN THEN gs.n + MEMORY ELSE @,
                         !.at = IF moreM THEN "right" ELSE IF moreN THEN "left" ELSE "end"]
  /\ UNCHANGED <<geo, ham, kv, ghosts, Gghosts, pc, pub, mv, sg, job>>

\* line 129 and the heads of the two outer loops
Gamma2D_EndVector ==
  /\ gs.at = "end" /\ gs.fn = "Gamma2D"
  /\ gs' = EndVector(gs, "scale")
  /\ UNCHANGED <<geo, ham, kv, ghosts, Gghosts, pc, pub, mv, sg, job>>

(***************************************************************************)
(* store_gamma1D and store_gamma, lines 438-527: every thread adds its     *)
(* array to Global.general_gamma inside a critical section, the master     *)
(* zeroes the global array before and writes it to the file after.         *)
(* A number is <<re, im, den>>, the value (re + i*im)/den in lowest terms. *)
(***************************************************************************)
MaxStoreThreads == 3
MaxStoreN == 2

Gcd3(a, b, c) == Gcd(Gcd(a, b), c)
CNum(re, im, den) ==
  LET k == Gcd3(re, im, den)
      s == IF den < 0 THEN 0 - 1 ELSE 1
  IN <<s * (re \div k), s * (im \div k), s * (den \div k)>>
CZero == <<0, 0, 1>>
CAdd(a, b) == CNum(a[1] * b[3] + b[1] * a[3], a[2] * b[3] + b[2] * a[3], a[3] * b[3])
CScale(k, a) == CNum(k * a[1], k * a[2], a[3])
CConj(a) == <<a[1], 0 - a[2], a[3]>>
CHalf(a) == CNum(a[1], a[2], 2 * a[3])

\* gamma * factor without the multiplication
ScaleGammaSkip(arr, f) == arr

\* line 132: gamma = gamma*factor
ScaleGamma(arr, f) == Eval([ind \in DOMAIN arr |-> CScale(f, arr[ind])])

\* the array itself in place of its symmetrized form
SymmetrizedNot(G, f, N0, N1) == G

\* line 496: (general_gamma.matrix() + factor*general_gamma.matrix().adjoint())/2.0
\* on the N0 x N1 column-major map of the array, entry (n, m) at n + N0*m
Symmetrized(G, f, N0, N1) ==
  Eval([ind \in DOMAIN G |->
          LET n == ind % N0
              m == ind \div N0
          IN CHalf(CAdd(G[ind], CScale(f, CConj(G[m + N1 * n]))))])

ArrAdd(A, B) == Eval([ind \in DOMAIN A |-> CAdd(A[ind], B[ind])])

\* what a thread adds to Global.general_gamma: store_gamma1D line 451, store_gamma
\* lines 496 (two index groups) and 506 (one index group)
Contribution(s, t) ==
  IF s.fn = "store_gamma" /\ Len(s.indices) = 2
  THEN Symmetrized(s.arr[t], factor(s.indices), s.N[1], s.N[2])
  ELSE s.arr[t]

\* the call: every thread enters with its own array; mu is the array the
\* accumulator had averaged before its last statements
StoreStart(caller, fn, N, indices, arr, mu) ==
  [at |-> "run", caller |-> caller, fn |-> fn, N |-> N, indices |-> indices, arr |-> arr, mu |-> mu,
   Global |-> <<>>, file |-> <<>>, written |-> FALSE,
   added |-> [t \in DOMAIN arr |-> <<>>],
   pc |-> [t \in DOMAIN arr |-> "zero"]]

\* #pragma omp master: Global.general_gamma = Zero(...)
Store_Zero(t) ==
  /\ sg.at = "run" /\ sg.pc[t] = "zero"
  /\ sg' = [sg EXCEPT !.pc[t] = "bar1",
                      !.Global = IF t = 0 THEN [ind \in 0 .. (SeqProd(sg.N) - 1) |-> CZero]
                                 ELSE @]
  /\ UNCHANGED <<geo, ham, kv, ghosts, Gghosts, pc, pub, mv, gs, job>>

\* #pragma omp critical: Global.general_gamma += ...
Store_Add(t) ==
  /\ sg.at = "run" /\ sg.pc[t] = "add"
  /\ sg' = [sg EXCEPT !.pc[t] = "bar2",
                      !.Global = ArrAdd(@, Contribution(sg, t)),
                      !.added[t] = Contribution(sg, t)]
  /\ UNCHANGED <<geo, ham, kv, ghosts, Gghosts, pc, pub, mv, gs, job>>

\* #pragma omp master: write_hdf5(Global.general_gamma, file, name_dataset)
Store_Write(t) ==
  /\ sg.at = "run" /\ sg.pc[t] = "write"
  /\ sg' = [sg EXCEPT !.pc[t] = "bar3",
                      !.file = IF t = 0 THEN sg.Global ELSE @,
                      !.written = IF t = 0 THEN TRUE ELSE @]
  /\ UNCHANGED <<geo, ham, kv, ghosts, Gghosts, pc, pub, mv, gs, job>>

AfterStoreBarrier(at) ==
  CASE at = "bar1" -> "add" [] at = "bar2" -> "write" [] OTHER -> "left"

\* a barrier that lets each thread through on its own
Store_BarrierAlone ==
  /\ sg.at = "run"
  /\ \E t \in DOMAIN sg.pc :
       /\ sg.pc[t] \in {"bar1", "bar2", "bar3"}
       /\ LET after == [sg.pc EXCEPT ![t] = AfterStoreBarrier(@)]
          IN sg' = [sg EXCEPT !.pc = after,
                              !.at = IF \A u \in DOMAIN after : after[u] = "left"
                                     THEN "done" ELSE @]
  /\ UNCHANGED <<geo, ham, kv, ghosts, Gghosts, pc, pub, mv, gs, job>>

\* #pragma omp barrier: the team leaves it together
Store_Barrier ==
  /\ sg.at = "run"
  /\ \E b \in {"bar1", "bar2", "bar3"} :
       /\ \A t \in DOMAIN sg.pc : sg.pc[t] = b
       /\ sg' = [sg EXCEPT !.pc = [t \in DOMAIN sg.pc |-> AfterStoreBarrier(b)],
                           !.at = IF b = "bar3" THEN "done" ELSE @]
  /\ UNCHANGED <<geo, ham, kv, ghosts, Gghosts, pc, pub, mv, gs, job>>

StoreStep ==
  \/ \E t \in Threads(geo) : Store_Zero(t) \/ Store_Add(t) \/ Store_Write(t)
  \/ Store_Barrier

\* the thread-local arrays of the accumulator as the numbers store_gamma works on
AsNumbers(gam) ==
  Eval([t \in DOMAIN gam |->
          [ind \in DOMAIN gam[t] |-> <<gam[t][ind][1], 0, gam[t][ind][2]>>]])

\* line 363: store_gamma1D(&gamma, name_dataset)
Gamma1D_Store ==
  /\ gs.at = "store" /\ gs.fn = "Gamma1D"
  /\ gs' = [gs EXCEPT !.at = "stored", !.last = "store"]
  /\ sg' = StoreStart("Gamma1D", "store_gamma1D", gs.N, gs.indices,
                      AsNumbers(gs.gamma), AsNumbers(gs.gamma))
  /\ UNCHANGED <<geo, ham, kv, ghosts, Gghosts, pc, pub, mv, job>>

\* lines 132-134: gamma = gamma*factor; store_gamma(&gamma, N_moments, indices, name_dataset)
Gamma2D_Store ==
  /\ gs.at = "scale" /\ gs.fn = "Gamma2D"
  /\ LET mu == AsNumbers(gs.gamma)
         scaled == Eval([t \in DOMAIN mu |-> ScaleGamma(mu[t], factor(gs.indices))])
     IN /\ gs' = [gs EXCEPT !.at = "stored", !.last = "store",
                            !.gamma = [t \in DOMAIN mu |->
                                         [ind \in DOMAIN mu[t] |->
                                            <<scaled[t][ind][1], scaled[t][ind][3]>>]]]
        /\ sg' = StoreStart("Gamma2D", "store_gamma", gs.N, gs.indices, scaled, mu)
  /\ UNCHANGED <<geo, ham, kv, ghosts, Gghosts, pc, pub, mv, job>>

(***************************************************************************)
(* Gamma3D, lines 139-290.  The moment array is Global.general_gamma,      *)
(* updated by the master from the reduced block Global.smaller_gamma; it   *)
(* is kept in gs.gamma[0].                                                 *)
(***************************************************************************)
Indices3D == {<<<<>>, <<>>, <<>>>>, <<<<0>>, <<1>>, <<0, 1>>>>}
Moments3D == {<<MEMORY, MEMORY, 2>>}

\* lines 225-229
Gamma3D_Vector ==
  /\ gs.at = "vector" /\ gs.fn = "Gamma3D"
  /\ \E p \in 1 .. NPatterns :
       LET v1 == ExchangeVector(geo, initiate_vector(geo, ham, kv, "kpm0", p), "kpm0")
       IN kv' = generalized_velocity(geo, ham, SetIndex(geo, v1, "kpm_Vn", 0),
                                     "kpm_Vn", "kpm0", gs.indices, 0)
  /\ gs' = [gs EXCEPT !.at = "left", !.n = 0, !.i = 0, !.last = "vector"]
  /\ UNCHANGED <<geo, ham, ghosts, Gghosts, pc, pub, mv, sg, job>>

\* lines 234-240, one pass
Gamma3D_Left ==
  /\ gs.at = "left" /\ gs.fn = "Gamma3D"
  /\ LET v1 == IF gs.i # 0 THEN cheb_iteration(geo, ham, kv, "kpm_Vn", gs.i - 1) ELSE kv
         v2 == generalized_velocity(geo, ham, SetIndex(geo, v1, "kpm_VnV", gs.i % MEMORY),
                                    "kpm_VnV", "kpm_Vn", gs.indices, 1)
     IN kv' = EmptyGhosts(geo, v2, "kpm_VnV", gs.i % MEMORY)
  /\ gs' = [gs EXCEPT !.i = @ + 1, !.last = "left",
                      !.at = IF gs.i + 1 < gs.n + MEMORY THEN "left" ELSE "copy"]
  /\ UNCHANGED <<geo, ham, ghosts, Gghosts, pc, pub, mv, sg, job>>

\* lines 243-244: kpm_p.set_index(0); kpm_p.v.col(0) = kpm0.v.col(0)
Gamma3D_Copy ==
  /\ gs.at = "copy" /\ gs.fn = "Gamma3D"
  /\ kv' = CopyCol0(geo, SetIndex(geo, kv, "kpm_p", 0), "kpm_p", "kpm0")
  /\ gs' = [gs EXCEPT !.at = "p", !.p = 0, !.last = "copy"]
  /\ UNCHANGED <<geo, ham, ghosts, Gghosts, pc, pub, mv, sg, job>>

\* lines 245-249: the next Chebyshev vector of kpm_p and its velocity into
\* column 0 of kpm_pVm
Gamma3D_P ==
  /\ gs.at = "p" /\ gs.fn = "Gamma3D"
  /\ LET v1 == IF gs.p # 0 THEN cheb_iteration(geo, ham, kv, "kpm_p", gs.p - 1) ELSE kv
     IN kv' = generalized_velocity(geo, ham, SetIndex(geo, v1, "kpm_pVm", 0),
                                   "kpm_pVm", "kpm_p", gs.indices, 2)
  /\ gs' = [gs EXCEPT !.at = "mid", !.m = 0, !.i = 0, !.last = "p"]
  /\ UNCHANGED <<geo, ham, ghosts, Gghosts, pc, pub, mv, sg, job>>

\* lines 251-252, one pass
Gamma3D_Mid ==
  /\ gs.at = "mid" /\ gs.fn = "Gamma3D"
  /\ kv' = IF gs.i # 0 THEN cheb_iteration(geo, ham, kv, "kpm_pVm", gs.i - 1) ELSE kv
  /\ gs' = [gs EXCEPT !.i = @ + 1, !.last = "mid",
                      !.at = IF gs.i + 1 < gs.m + MEMORY THEN "mid" ELSE "dot"]
  /\ UNCHANGED <<geo, ham, ghosts, Gghosts, pc, pub, mv, sg, job>>

\* lines 254-267: Global.smaller_gamma(i, j), the sum over the threads of tmp(i, j)
smaller_gamma(g, vs, i, j) ==
  LET RECURSIVE Go(_)
      Go(t) == IF t = nThreads(g) THEN 0
               ELSE Tmp(g, vs[t].kpm_VnV, vs[t].kpm_pVm, i, j) + Go(t + 1)
  IN Go(0)

\* lines 268-276: for i, for j: index = p*N1*N0 + (m+j)*N0 + n+i, by the master
Deposit3D(s, vs) ==
  LET RECURSIVE Go(_, _, _)
      Go(acc, lo, hi) ==
        IF lo = hi
        THEN LET i == lo \div MEMORY
                 j == lo % MEMORY
             IN Deposit(acc, s.p * s.N[2] * s.N[1] + (s.m + j) * s.N[1] + s.n + i,
                        smaller_gamma(geo, vs, i, j), s.average)
        ELSE LET half == Go(acc, lo, (lo + hi) \div 2)
             IN IF half = half THEN Go(half, ((lo + hi) \div 2) + 1, hi) ELSE acc
  IN Go([gamma |-> s.gamma[0], hist |-> s.hist[0]], 0, MEMORY * MEMORY - 1)

\* lines 254-277 and the heads of the loops over m, p and n
Gamma3D_Dot ==
  /\ gs.at = "dot" /\ gs.fn = "Gamma3D"
  /\ LET acc == Deposit3D(gs, kv)
         moreM == gs.m + MEMORY < gs.N[2]
         moreP == gs.p + 1 < gs.N[3]
         moreN == gs.n + MEMORY < gs.N[1]
     IN gs' = [gs EXCEPT !.gamma = [t \in {0} |-> acc.gamma],
                         !.hist = [t \in {0} |-> acc.hist],
                         !.last = "dot", !.dots = @ + 1,
                         !.m = IF moreM THEN @ + MEMORY ELSE @,
                         !.p = IF ~moreM /\ moreP THEN @ + 1 ELSE @,
                         !.n = IF ~moreM /\ ~moreP /\ moreN THEN @ + MEMORY ELSE @,
                         !.i = IF moreM THEN gs.m + MEMORY
                               ELSE IF ~moreP /\ moreN THEN gs.n + MEMORY ELSE @,
                         !.at = IF moreM THEN "mid" ELSE IF moreP THEN "p"
                                ELSE IF moreN THEN "left" ELSE "end"]
  /\ UNCHANGED <<geo, ham, kv, ghosts, Gghosts, pc, pub, mv, sg, job>>

\* line 281 and the heads of the two outer loops
Gamma3D_EndVector ==
  /\ gs.at = "end" /\ gs.fn = "Gamma3D"
  /\ gs' = EndVector(gs, "store")
  /\ UNCHANGED <<geo, ham, kv, ghosts, Gghosts, pc, pub, mv, sg, job>>

(***************************************************************************)
(* store_gamma3D, lines 529-637.  Called by the master only (line 286)     *)
(* with Global.general_gamma, which it maps as an (N0*N1) x N2             *)
(* column-major array: general_gamma(r, c) is entry r + N0*N1*c.  A        *)
(* coefficient access outside the rows or the columns of the map is        *)
(* undefined: a build with Eigen's assertions aborts, a build without them *)
(* reads entry r + N0*N1*c when the buffer has one and memory beyond the   *)
(* buffer otherwise.                                                       *)
(***************************************************************************)
CSixth(a) == CNum(a[1], a[2], 6 * a[3])
CAdd3(a, b, c) == CAdd(CAdd(a, b), c)

\* what a read beyond the buffer may return
Garbage == {CZero, <<1, 1, 1>>}

\* general_gamma(a + N0*b, c) is inside the map
InMap(N, a, b, c) == a + N[1] * b < N[1] * N[2] /\ c < N[3]

\* general_gamma(a + N0*b, c) in a build without assertions
Coef(G, N, g, a, b, c) ==
  LET k == (a + N[1] * b) + N[1] * N[2] * c
  IN IF k < N[1] * N[2] * N[3] THEN G[k] ELSE g

\* lines 567-569 without the three conjugated terms of lines 571-573
SixTermsDirect(G, N, f, g, n, m, p) ==
  CAdd3(CSixth(Coef(G, N, g, n, m, p)), CSixth(Coef(G, N, g, m, p, n)),
        CSixth(Coef(G, N, g, p, n, m)))

\* lines 567-573
SixTerms(G, N, f, g, n, m, p) ==
  CAdd(CAdd3(CSixth(Coef(G, N, g, n, m, p)), CSixth(Coef(G, N, g, m, p, n)),
             CSixth(Coef(G, N, g, p, n, m))),
       CAdd3(CScale(f, CSixth(CConj(Coef(G, N, g, p, m, n)))),
             CScale(f, CSixth(CConj(Coef(G, N, g, n, p, m)))),
             CScale(f, CSixth(CConj(Coef(G, N, g, m, n, p))))))

\* lines 586-587, 598-599, 610-611: general_gamma(n + N0*m, p)/2 plus factor/2 times
\* the conjugate of general_gamma(a + N0*b, c)
TwoTerms(G, N, f, g, n, m, p, a, b, c) ==
  CAdd(CHalf(Coef(G, N, g, n, m, p)), CScale(f, CHalf(CConj(Coef(G, N, g, a, b, c)))))

\* the if statement of lines 563-620 whose condition holds
Rule3D(indices, N) ==
  CASE indices[1] = indices[2] /\ indices[1] = indices[3] -> "six"
    [] indices[1] = indices[2] /\ indices[1] # indices[3] /\ N[2] = N[3] -> "first two"
    [] indices[1] = indices[3] /\ indices[1] # indices[2] /\ N[1] = N[3] -> "first and last"
    [] indices[3] = indices[2] /\ indices[1] # indices[3] /\ N[1] = N[2] -> "last two"
    [] indices[1] # indices[2] /\ indices[1] # indices[3] /\ indices[2] # indices[3] -> "distinct"
    [] OTHER -> "none"

\* the coefficient of general_gamma that lines 568-611 read next to (n, m, p)
Reads3D(rule, n, m, p) ==
  CASE rule = "six" -> {<<m, p, n>>, <<p, n, m>>, <<p, m, n>>, <<n, p, m>>, <<m, n, p>>}
    [] rule = "first two" -> {<<n, p, m>>}
    [] rule = "first and last" -> {<<m, n, p>>}
    [] rule = "last two" -> {<<p, m, n>>}
    [] OTHER -> {}

Triples(N) == (0 .. (N[1] - 1)) \X (0 .. (N[2] - 1)) \X (0 .. (N[3] - 1))

\* some access of the call is outside the map
Undefined3D(indices, N) ==
  \E q \in Triples(N) : \E r \in Reads3D(Rule3D(indices, N), q[1], q[2], q[3]) :
     ~InMap(N, r[1], r[2], r[3])

\* storage_gamma after the switch, line 555 and lines 557-623
storage_gamma(G, N, indices, g) ==
  LET f == factor(indices)
      rule == Rule3D(indices, N)
  IN Eval([k \in 0 .. (N[1] * N[2] * N[3] - 1) |->
             LET n == k % N[1]
                 m == (k \div N[1]) % N[2]
                 p == k \div (N[1] * N[2])
             IN CASE rule = "six" -> SixTerms(G, N, f, g, n, m, p)
                  [] rule = "first two" -> TwoTerms(G, N, f, g, n, m, p, n, p, m)
                  [] rule = "first and last" -> TwoTerms(G, N, f, g, n, m, p, m, n, p)
                  [] rule = "last two" -> TwoTerms(G, N, f, g, n, m, p, p, m, n)
                  [] rule = "distinct" -> G[k]
                  [] OTHER -> CZero])

\* the call as a whole: exit(1) of line 626, an assertion failure, or the array
\* written at line 632
store_gamma3D(s, G, N, indices) ==
  IF Len(indices) # 3
  THEN {[s EXCEPT !.at = "exit"]}
  ELSE {[s EXCEPT !.at = "done", !.written = TRUE, !.rule = Rule3D(indices, N),
                  !.file = storage_gamma(G, N, indices, g)] :
          g \in IF Undefined3D(indices, N) THEN Garbage ELSE {CZero}}
       \cup IF Undefined3D(indices, N) THEN {[s EXCEPT !.at = "abort"]} ELSE {}

\* the master at line 286, the team waits at the barrier of line 289
Store3DStart(N, indices, G) ==
  [at |-> "master", caller |-> "Gamma3D", fn |-> "store_gamma3D", N |-> N,
   indices |-> indices, arr |-> G, mu |-> G, Global |-> G, file |-> <<>>,
   written |-> FALSE, rule |-> "none", added |-> <<>>, pc |-> <<>>]

Store3D ==
  /\ sg.at = "master"
  /\ sg' \in store_gamma3D(sg, sg.Global, sg.N, sg.indices)
  /\ UNCHANGED <<geo, ham, kv, ghosts, Gghosts, pc, pub, mv, gs, job>>

\* lines 284-289: store_gamma3D(&Global.general_gamma, N_moments, indices, name_dataset)
Gamma3D_Store ==
  /\ gs.at = "store" /\ gs.fn = "Gamma3D"
  /\ gs' = [gs EXCEPT !.at = "stored", !.last = "store"]
  /\ sg' = Store3DStart(gs.N, gs.indices, AsNumbers(gs.gamma)[0])
  /\ UNCHANGED <<geo, ham, kv, ghosts, Gghosts, pc, pub, mv, job>>

InitGamma ==
  /\ \E c \in SampleCounts :
       \/ \E N \in Moments1D : \E ix \in Indices1D :
            /\ geo \in GammaGeoms
            /\ kv = [t \in Threads(geo) |->
                       [kpm0 |-> NewVector(geo, 1), kpm1 |-> NewVector(geo, 2)]]
            /\ gs = GammaStart("Gamma1D", <<N>>, ix, c, Threads(geo))
       \/ \E N \in Moments2D : \E ix \in Indices2D :
            /\ geo \in TeamGeoms
            /\ kv = [t \in Threads(geo) |->
                       [kpm0 |-> NewVector(geo, 1), kpm1 |-> NewVector(geo, 2),
                        kpm2 |-> NewVector(geo, MEMORY), kpm3 |-> NewVector(geo, MEMORY)]]
            /\ gs = GammaStart("Gamma2D", N, ix, c, Threads(geo))
       \/ \E N \in Moments3D : \E ix \in Indices3D :
            /\ geo \in TeamGeoms
            /\ kv = [t \in Threads(geo) |->
                       [kpm0 |-> NewVector(geo, 1), kpm_Vn |-> NewVector(geo, 2),
                        kpm_VnV |-> NewVector(geo, MEMORY), kpm_p |-> NewVector(geo, 2),
                        kpm_pVm |-> NewVector(geo, MEMORY)]]
            /\ gs = GammaStart("Gamma3D", N, ix, c, {0})
  /\ ham = GammaHam(geo)
  /\ ghosts = <<>> /\ Gghosts = <<>> /\ pc = <<>> /\ pub = <<>>
  /\ mv = [at |-> "off"]
  /\ job = [at |-> "off"]
  /\ sg = [at |-> "off"]

NextGamma ==
  \/ Gamma1D_Vector \/ Gamma1D_First \/ Gamma1D_Pair \/ Gamma1D_EndVector \/ Gamma1D_Store
  \/ Gamma2D_Vector \/ Gamma2D_Left \/ Gamma2D_Copy \/ Gamma2D_Right \/ Gamma2D_Dot
  \/ Gamma2D_EndVector \/ Gamma2D_Store
  \/ Gamma3D_Vector \/ Gamma3D_Left \/ Gamma3D_Copy \/ Gamma3D_P \/ Gamma3D_Mid
  \/ Gamma3D_Dot \/ Gamma3D_EndVector \/ Gamma3D_Store
  \/ StoreStep \/ Store3D

SpecGamma == InitGamma /\ [][NextGamma]_vars

\* C7 (Gamma1D, Gamma2D): `average` counts the completed random vectors and is
\* never reset between disorder realizations; after the outer loops it equals
\* NDisorder*NRandomV and every entry of every thread-local moment array is the
\* arithmetic mean of the NDisorder*NRandomV values deposited into that entry.
C7_AverageIsArithmeticMean ==
  gs.at # "off" /\ gs.fn \in {"Gamma1D", "Gamma2D"} =>
    /\ gs.average = gs.disorder * gs.NRandomV + gs.randV
    /\ gs.at \in {"store", "scale"} =>
         /\ gs.average = gs.NDisorder * gs.NRandomV
         /\ \A t \in DOMAIN gs.gamma : \A ind \in DOMAIN gs.gamma[t] :
              /\ gs.hist[t][ind][2] = gs.NDisorder * gs.NRandomV
              /\ gs.gamma[t][ind][1] * gs.hist[t][ind][2]
                   = gs.hist[t][ind][1] * gs.gamma[t][ind][2]

C7_Witness ==
  /\ gs.at = "store" /\ gs.fn = "Gamma1D" /\ gs.NDisorder = 2 /\ gs.NRandomV = 1
  /\ \E t \in DOMAIN gs.gamma : \E ind \in DOMAIN gs.gamma[t] : gs.gamma[t][ind][2] = 2

\* the vectors and columns (1-based) that enter the dot products of an accumulator
DotSides ==
  CASE gs.fn = "Gamma1D" -> [L |-> "kpm0", R |-> "kpm1", lc |-> {1}, rc |-> {1, 2}]
    [] gs.fn = "Gamma2D" -> [L |-> "kpm3", R |-> "kpm2", lc |-> 1 .. MEMORY, rc |-> 1 .. MEMORY]
    [] OTHER -> [L |-> "kpm_VnV", R |-> "kpm_pVm", lc |-> 1 .. MEMORY, rc |-> 1 .. MEMORY]

\* sum over the threads of the per-thread dot products, each over the whole local array
TeamDot(g, vs, L, cl, R, cr) ==
  LET RECURSIVE Go(_)
      Go(t) == IF t = nThreads(g) THEN 0
               ELSE Dot(g, vs[t][L].v[cl], vs[t][R].v[cr]) + Go(t + 1)
  IN Go(0)

\* the dot product over the undivided lattice: every global site once, each factor
\* read in the bulk cell that owns the site
GlobalDot(g, vs, own, L, cl, R, cr) ==
  LET RECURSIVE Go(_)
      Go(z) == IF z < 0 THEN 0
               ELSE vs[own[z][1]][L].v[cl][own[z][2]] * vs[own[z][1]][R].v[cr][own[z][2]]
                    + Go(z - 1)
  IN Go(Lt(g, 0) * Lt(g, 1) * g.Orb - 1)

\* C8: at every dot product of Gamma1D, Gamma2D and Gamma3D the left-hand vector
\* has zero in every ghost cell, and the per-thread dot products over the whole
\* local arrays add up to the dot product over the global sites, each counted once.
C8_GhostsEmptiedBeforeDot ==
  gs.at # "off" /\ gs.last = "dot" =>
    LET s == DotSides
        own == Eval([z \in GSites(geo) |-> OwnerOf(geo, z)])
    IN /\ \A t \in Threads(geo) : \A c \in s.lc : \A i \in Cells(geo) :
            ~IsBulk(geo, i) => kv[t][s.L].v[c][i] = 0
       /\ \A cl \in s.lc : \A cr \in s.rc :
            TeamDot(geo, kv, s.L, cl, s.R, cr) = GlobalDot(geo, kv, own, s.L, cl, s.R, cr)

\* a dot product of Gamma2D by two threads whose right-hand vector has a non-zero
\* ghost cell, with a non-zero result
C8_Witness ==
  /\ gs.at # "off" /\ gs.last = "dot" /\ gs.fn = "Gamma2D" /\ nThreads(geo) = 2
  /\ \E t \in Threads(geo) : \E i \in Cells(geo) : ~IsBulk(geo, i) /\ kv[t].kpm2.v[2][i] # 0
  /\ TeamDot(geo, kv, "kpm3", 2, "kpm2", 2) # 0

(***************************************************************************)
(* store_gamma1D / store_gamma entered by a team of T threads with         *)
(* arbitrary thread-local arrays, as left by Gamma1D, by Gamma2D (after    *)
(* its line 132) or by GammaGeneral (lines 367-436, the array as averaged) *)
(***************************************************************************)
\* entry ind of the array thread t has averaged, in the draw numbered p
StoreAmplitude(p, t, ind) ==
  <<(((p + 1) * ind + 2 * t + p) % 5) - 2, ((2 * ind + t + p * p) % 3) - 1, 1>>

\* moment counts Gamma3D accepts (lines 197-201: every count even) and axis lists
Moments3DStore ==
  LET even == {2 * k : k \in 1 .. MaxStoreN}
  IN {<<a, b, c>> : a \in even, b \in even, c \in even}
Indices3DStore ==
  {<<<<0>>, <<0>>, <<0>>>>, <<<<>>, <<>>, <<>>>>, <<<<0, 1>>, <<0, 1>>, <<0, 1>>>>,
   <<<<0>>, <<0>>, <<1>>>>, <<<<0>>, <<1>>, <<0>>>>, <<<<1>>, <<0>>, <<0>>>>,
   <<<<0, 1>>, <<0, 1>>, <<>>>>, <<<<>>, <<0>>, <<0>>>>,
   <<<<0>>, <<1>>, <<0, 1>>>>, <<<<>>, <<0>>, <<1>>>>}

StoreGeoms == {[nd |-> <<T, 1>>, lStr |-> <<1, 1>>, Orb |-> 1] : T \in 1 .. MaxStoreThreads}

InitStore ==
  /\ geo \in StoreGeoms
  /\ \E p \in 1 .. NPatterns :
     \/ \E N \in Moments3DStore : \E ix \in Indices3DStore :
          sg = Store3DStart(N, ix, [ind \in 0 .. (SeqProd(N) - 1) |-> StoreAmplitude(p, 0, ind)])
     \/ \E N \in 1 .. MaxStoreN :
       LET mu(size) == [t \in Threads(geo) |->
                          [ind \in 0 .. (size - 1) |-> StoreAmplitude(p, t, ind)]]
       IN \/ \E ix \in Indices2D \cup {<<<<0>>, <<>>>>, <<<<0>>, <<0, 1>>>>} :
               \/ sg = StoreStart("Gamma2D", "store_gamma", <<N, N>>, ix,
                                  [t \in Threads(geo) |-> ScaleGamma(mu(N * N)[t], factor(ix))],
                                  mu(N * N))
               \/ sg = StoreStart("GammaGeneral", "store_gamma", <<N, N>>, ix,
                                  mu(N * N), mu(N * N))
          \/ sg = StoreStart("DOS", "store_MU", <<N, N>>, <<>>, mu(N * N), mu(N * N))
          \/ \E ix \in Indices1D \ {<<>>} :
               \/ sg = StoreStart("Gamma1D", "store_gamma1D", <<N>>, ix, mu(N), mu(N))
               \/ sg = StoreStart("GammaGeneral", "store_gamma", <<N>>, ix, mu(N), mu(N))
  /\ ham = <<>> /\ kv = <<>>
  /\ ghosts = <<>> /\ Gghosts = <<>> /\ pc = <<>> /\ pub = <<>>
  /\ mv = [at |-> "off"]
  /\ job = [at |-> "off"]
  /\ gs = [at |-> "off"]

NextStore == StoreStep \/ Store3D

SpecStore == InitStore /\ [][NextStore]_vars

IsTwoDim(s) == s.fn = "store_gamma" /\ Len(s.indices) = 2

\* entry (n, m) of an N0 x N1 array stored column-major
At(G, N, n, m) == G[n + N[1] * m]

\* C9 as claimed: the array a thread adds for Gamma2D is (mu + factor*mu^dagger)/2,
\* mu being the array Gamma2D has averaged.
C9_AddsSymmetrizedMu ==
  sg.at # "off" /\ sg.caller = "Gamma2D" =>
    \A t \in DOMAIN sg.added :
       sg.added[t] # <<>> =>
         \A n \in 0 .. (sg.N[1] - 1) : \A m \in 0 .. (sg.N[2] - 1) :
            At(sg.added[t], sg.N, n, m)
              = CHalf(CAdd(At(sg.mu[t], sg.N, n, m),
                           CScale(factor(sg.indices), CConj(At(sg.mu[t], sg.N, m, n)))))

\* C9, corrected: Gamma2D multiplies its averaged array mu by factor before the
\* call, so the array a thread adds is factor*(mu + factor*mu^dagger)/2, that is
\* (factor*mu + mu^dagger)/2.
C9_AddsSymmetrizedScaledMu ==
  sg.at # "off" /\ sg.caller = "Gamma2D" =>
    \A t \in DOMAIN sg.added :
       sg.added[t] # <<>> =>
         \A n \in 0 .. (sg.N[1] - 1) : \A m \in 0 .. (sg.N[2] - 1) :
            At(sg.added[t], sg.N, n, m)
              = CHalf(CAdd(CScale(factor(sg.indices), At(sg.mu[t], sg.N, n, m)),
                           CConj(At(sg.mu[t], sg.N, m, n))))

\* a thread of a team of three has added its array for an odd number of velocity
\* axes, and the array it averaged is not anti-Hermitian
C9_Witness ==
  /\ sg.at # "off" /\ sg.caller = "Gamma2D" /\ factor(sg.indices) = 0 - 1
  /\ nThreads(geo) = 3 /\ sg.N[1] = 2
  /\ \E t \in DOMAIN sg.added :
       /\ sg.added[t] # <<>>
       /\ \E ind \in DOMAIN sg.added[t] : sg.added[t][ind] # CZero

\* C10: the two-dimensional array store_gamma writes to the file satisfies
\* G(n,m) = factor * conj(G(m,n)) for all n, m (N0 = N1), whatever the arrays of
\* the threads and the size of the team.
C10_WrittenArrayIsFactorHermitian ==
  sg.at # "off" /\ IsTwoDim(sg) /\ sg.written =>
    \A n \in 0 .. (sg.N[1] - 1) : \A m \in 0 .. (sg.N[2] - 1) :
       At(sg.file, sg.N, n, m) = CScale(factor(sg.indices), CConj(At(sg.file, sg.N, m, n)))

C10_Witness ==
  /\ sg.at # "off" /\ IsTwoDim(sg) /\ sg.written /\ nThreads(geo) = 3 /\ sg.N[1] = 2
  /\ factor(sg.indices) = 0 - 1
  /\ sg.file[2] # CZero

Is3D(s) == s.fn = "store_gamma3D"

\* entry (n, m, p) of an array laid out as Gamma3D fills it (line 273)
At3(G, N, n, m, p) == G[n + N[1] * m + N[1] * N[2] * p]

\* C11: with three equal axis lists and N0 = N1 = N2 the array store_gamma3D
\* writes is invariant under cyclic permutation of (n, m, p) and equals factor
\* times the conjugate of itself under each of the three transpositions,
\* whatever the input array.
C11_SixSymmetries ==
  sg.at # "off" /\ Is3D(sg) /\ sg.written
    /\ sg.indices[1] = sg.indices[2] /\ sg.indices[1] = sg.indices[3]
    /\ sg.N[1] = sg.N[2] /\ sg.N[1] = sg.N[3] =>
    LET S(n, m, p) == At3(sg.file, sg.N, n, m, p)
        fc(x) == CScale(factor(sg.indices), CConj(x))
    IN \A q \in Triples(sg.N) :
         LET n == q[1]
             m == q[2]
             p == q[3]
         IN /\ S(n, m, p) = S(m, p, n)
            /\ S(n, m, p) = S(p, n, m)
            /\ S(n, m, p) = fc(S(p, m, n))
            /\ S(n, m, p) = fc(S(n, p, m))
            /\ S(n, m, p) = fc(S(m, n, p))

\* three equal axis lists with an odd number of velocities, equal moment counts,
\* an input that has none of the symmetries and a written array that is not zero
C11_Witness ==
  /\ sg.at # "off" /\ Is3D(sg) /\ sg.written
  /\ sg.indices = <<<<0>>, <<0>>, <<0>>>> /\ sg.N = <<2, 2, 2>>
  /\ At3(sg.arr, sg.N, 0, 1, 0) # At3(sg.arr, sg.N, 1, 0, 0)
  /\ At3(sg.arr, sg.N, 0, 1, 0) # CScale(0 - 1, CConj(At3(sg.arr, sg.N, 0, 0, 1)))
  /\ \E k \in DOMAIN sg.file : sg.file[k] # CZero

\* the pairs of moment indices a transposition can exchange: both counts equal
Swaps(N) == {w \in {<<1, 2>>, <<1, 3>>, <<2, 3>>} : N[w[1]] = N[w[2]]}
Swapped(q, w) == [q EXCEPT ![w[1]] = q[w[2]], ![w[2]] = q[w[1]]]

ExactlyTwoEqual(ix) ==
  /\ ~(ix[1] = ix[2] /\ ix[1] = ix[3])
  /\ (ix[1] = ix[2] \/ ix[1] = ix[3] \/ ix[2] = ix[3])

AllDistinct(ix) == ix[1] # ix[2] /\ ix[1] # ix[3] /\ ix[2] # ix[3]

\* C12: once the master's call has ended, with exactly two equal axis lists the
\* file holds half the array plus factor/2 times the conjugate of the array with
\* two moment indices exchanged, for every triple of even moment counts; with
\* three distinct axis lists the file holds the array unchanged.
C12_TwoTermOrUnchanged ==
  sg.at \in {"done", "abort", "exit"} /\ Is3D(sg) =>
    /\ ExactlyTwoEqual(sg.indices) =>
         /\ sg.written
         /\ \E w \in Swaps(sg.N) : \A q \in Triples(sg.N) :
              At3(sg.file, sg.N, q[1], q[2], q[3])
                = CAdd(CHalf(At3(sg.arr, sg.N, q[1], q[2], q[3])),
                       CScale(factor(sg.indices),
                              CHalf(CConj(At3(sg.arr, sg.N, Swapped(q, w)[1],
                                              Swapped(q, w)[2], Swapped(q, w)[3])))))
    /\ AllDistinct(sg.indices) => sg.written /\ sg.file = sg.arr

IsTeamStore(s) == s.fn \in {"store_gamma1D", "store_gamma", "store_MU"}

\* the sum of the arrays the threads of W have added, entry by entry
AddedBy(s, W) ==
  LET RECURSIVE Go(_)
      Go(t) == IF t = nThreads(geo) THEN [ind \in 0 .. (SeqProd(s.N) - 1) |-> CZero]
               ELSE IF t \in W THEN ArrAdd(Go(t + 1), s.added[t]) ELSE Go(t + 1)
  IN Go(0)

HasAdded(s) == {t \in DOMAIN s.added : s.added[t] # <<>>}

\* C13: in store_gamma1D, store_gamma and store_MU the master has zeroed the
\* global array before any thread adds, the global array is at every moment the
\* sum of the arrays added so far, and the array the master writes is the sum of
\* the arrays of all T threads (each thread's own array, symmetrized in the
\* two-dimensional case of store_gamma).
C13_WriteIsSumOfAllThreads ==
  sg.at # "off" /\ IsTeamStore(sg) =>
    /\ HasAdded(sg) # {} => sg.pc[0] # "zero" /\ sg.Global = AddedBy(sg, HasAdded(sg))
    /\ \A t \in HasAdded(sg) : ~IsTwoDim(sg) => sg.added[t] = sg.arr[t]
    /\ sg.written =>
         /\ HasAdded(sg) = DOMAIN sg.added
         /\ sg.file = AddedBy(sg, DOMAIN sg.added)

\* store_MU by three threads: the master has written a non-zero array to which a
\* thread other than the master has added a non-zero entry
C13_Witness ==
  /\ sg.at # "off" /\ sg.fn = "store_MU" /\ sg.written /\ nThreads(geo) = 3
  /\ \E ind \in DOMAIN sg.file : sg.file[ind] # CZero /\ sg.added[2][ind] # CZero

(***************************************************************************)
(* File operations inside the parallel region: calc_DOS (main.cpp lines    *)
(* 275-339) and Simulation::store_gamma (Simulation.hpp lines 795-890),    *)
(* run by a team of T threads.  job.ops is the history of the operations   *)
(* on the container file; Global.general_gamma is kept as the set of the   *)
(* threads whose array it contains.                                        *)
(***************************************************************************)
MaxIOThreads == 3

rest == <<geo, ham, kv, ghosts, Gghosts, pc, pub, mv, gs, sg>>

\* a thread that is no master, in place of the test of #pragma omp master
IsMasterAny(t) == TRUE

\* #pragma omp master
IsMaster(t) == t = 0

FileOp(t, kind, line) == [t |-> t, kind |-> kind, line |-> line, fn |-> job.fn,
                          added |-> job.Global]

IOStart(fn, T, content, dim) ==
  [at |-> "run", fn |-> fn, T |-> T, content |-> content, dim |-> dim,
   pc |-> [t \in 0 .. (T - 1) |-> IF fn = "calc_DOS" THEN "b282" ELSE "open"],
   ops |-> {}, calculate_dos |-> FALSE, local |-> [t \in 0 .. (T - 1) |-> FALSE],
   Global |-> {}, status |-> 0]

IOThreads == DOMAIN job.pc

IOGoto(t, label) == [job EXCEPT !.pc[t] = label]

\* lines 286-297: the master opens the file read-only, probes NumMoments, closes
DOS_Probe(t) ==
  /\ job.at = "run" /\ job.fn = "calc_DOS" /\ job.pc[t] = "m286"
  /\ job' = IF IsMaster(t)
            THEN [job EXCEPT !.pc[t] = "b298",
                             !.calculate_dos = job.content.dos,
                             !.ops = @ \cup {FileOp(t, "open", 288), FileOp(t, "read", 292),
                                             FileOp(t, "close", 295)}]
            ELSE IOGoto(t, "b298")
  /\ UNCHANGED rest

\* lines 299-300: critical, local_calculate_dos = Global.calculate_dos
DOS_Local(t) ==
  /\ job.at = "run" /\ job.fn = "calc_DOS" /\ job.pc[t] = "c299"
  /\ job' = [job EXCEPT !.pc[t] = "b302", !.local[t] = job.calculate_dos]
  /\ UNCHANGED rest

\* line 304 and lines 305-308: the master prints
DOS_Announce(t) ==
  /\ job.at = "run" /\ job.fn = "calc_DOS" /\ job.pc[t] = "m305"
  /\ job' = IOGoto(t, IF job.local[t] THEN "b309" ELSE "ret")
  /\ UNCHANGED rest

\* lines 310-334: critical, every thread opens the file, reads the three
\* parameters and closes; a parameter that is not positive ends the process
\* with exit(0)
DOS_Read(t) ==
  /\ job.at = "run" /\ job.fn = "calc_DOS" /\ job.pc[t] = "c310"
  /\ LET ops == job.ops \cup {FileOp(t, "open", 312), FileOp(t, "read", 315),
                              FileOp(t, "close", 318)}
     IN job' = IF job.content.NDisorder <= 0 \/ job.content.NMoments <= 0
                    \/ job.content.NRandom <= 0
               THEN [job EXCEPT !.at = "exit", !.status = 0, !.ops = ops]
               ELSE [job EXCEPT !.pc[t] = "b335", !.ops = ops]
  /\ UNCHANGED rest

\* line 336: DOS(NMoments, NRandom, NDisorder)
DOS_Call(t) ==
  /\ job.at = "run" /\ job.fn = "calc_DOS" /\ job.pc[t] = "dos"
  /\ job' = IOGoto(t, "ret")
  /\ UNCHANGED rest

\* Simulation.hpp line 801: every thread opens the file read-write; the library
\* call takes time, and two calls that overlap race inside the library: both
\* succeed or the process crashes
SG_Open(t) ==
  /\ job.at = "run" /\ job.fn = "store_gamma" /\ job.pc[t] = "open"
  /\ job' = [job EXCEPT !.pc[t] = "opening", !.ops = @ \cup {FileOp(t, "open", 801)}]
  /\ UNCHANGED rest

SG_Opened(t) ==
  /\ job.at = "run" /\ job.fn = "store_gamma" /\ job.pc[t] = "opening"
  /\ \/ job' = IF job.dim \in {1, 2} THEN IOGoto(t, "zero")
               ELSE [job EXCEPT !.at = "exit", !.status = 0]
     \/ /\ \E u \in IOThreads \ {t} : job.pc[u] = "opening"
        /\ job' = [job EXCEPT !.at = "crash"]
  /\ UNCHANGED rest

\* lines 826-829 and 849-852: the master zeroes Global.general_gamma
SG_Zero(t) ==
  /\ job.at = "run" /\ job.fn = "store_gamma" /\ job.pc[t] = "zero"
  /\ job' = IF IsMaster(t) THEN [job EXCEPT !.pc[t] = "bar1", !.Global = {}]
            ELSE IOGoto(t, "bar1")
  /\ UNCHANGED rest

\* lines 838-839 and 859-860: critical, the thread adds its array
SG_Add(t) ==
  /\ job.at = "run" /\ job.fn = "store_gamma" /\ job.pc[t] = "add"
  /\ job' = [job EXCEPT !.pc[t] = "bar2", !.Global = @ \cup {t}]
  /\ UNCHANGED rest

\* lines 881-884: the master writes Global.general_gamma
SG_Write(t) ==
  /\ job.at = "run" /\ job.fn = "store_gamma" /\ job.pc[t] = "write"
  /\ job' = IF IsMaster(t)
            THEN [job EXCEPT !.pc[t] = "close", !.ops = @ \cup {FileOp(t, "write", 883)}]
            ELSE IOGoto(t, "close")
  /\ UNCHANGED rest

\* line 886: delete file, by every thread, and the return
SG_Close(t) ==
  /\ job.at = "run" /\ job.fn = "store_gamma" /\ job.pc[t] = "close"
  /\ job' = [job EXCEPT !.pc[t] = "ret", !.ops = @ \cup {FileOp(t, "close", 886)}]
  /\ UNCHANGED rest

\* where a thread continues after the barrier it waits at
AfterIOBarrier(b) ==
  CASE b = "b282" -> "m286" [] b = "b298" -> "c299" [] b = "b302" -> "m305"
    [] b = "b309" -> "c310" [] b = "b335" -> "dos"
    [] b = "bar1" -> "add" [] b = "bar2" -> "write"

IOBarriers == {"b282", "b298", "b302", "b309", "b335", "bar1", "bar2"}

\* #pragma omp barrier
IO_Barrier ==
  /\ job.at = "run"
  /\ \A t \in IOThreads : job.pc[t] \in IOBarriers
  /\ job' = [job EXCEPT !.pc = [t \in IOThreads |-> AfterIOBarrier(job.pc[t])]]
  /\ UNCHANGED rest

FileContents ==
  {[dos |-> d, NDisorder |-> nd, NMoments |-> nm, NRandom |-> nr] :
     d \in BOOLEAN, nd \in 0 .. 1, nm \in 0 .. 1, nr \in 0 .. 1}

InitIO ==
  /\ \E T \in 1 .. MaxIOThreads :
       \/ \E c \in FileContents : job = IOStart("calc_DOS", T, c, 0)
       \/ \E dim \in 1 .. 3 : job = IOStart("store_gamma", T, [dos |-> FALSE], dim)
  /\ geo = <<>> /\ ham = <<>> /\ kv = <<>>
  /\ ghosts = <<>> /\ Gghosts = <<>> /\ pc = <<>> /\ pub = <<>>
  /\ mv = [at |-> "off"] /\ gs = [at |-> "off"] /\ sg = [at |-> "off"]

NextIO ==
  \/ \E t \in IOThreads : DOS_Probe(t)
  \/ \E t \in IOThreads : DOS_Local(t)
  \/ \E t \in IOThreads : DOS_Announce(t)
  \/ \E t \in IOThreads : DOS_Read(t)
  \/ \E t \in IOThreads : DOS_Call(t)
  \/ \E t \in IOThreads : SG_Open(t)
  \/ \E t \in IOThreads : SG_Opened(t)
  \/ \E t \in IOThreads : SG_Zero(t)
  \/ \E t \in IOThreads : SG_Add(t)
  \/ \E t \in IOThreads : SG_Write(t)
  \/ \E t \in IOThreads : SG_Close(t)
  \/ IO_Barrier

SpecIO == InitIO /\ [][NextIO]_vars

MaxLen == 4

Alphabet == {"x", "y", "z", ",", "a"}

Strings == UNION {[1 .. n -> Alphabet] : n \in 0 .. MaxLen}

Configs ==
  {[is_complex |-> c, precision |-> p, dim |-> d, MagneticField |-> b] :
     c \in (0 - 1) .. 2, p \in (0 - 1) .. 3, d \in 0 .. 4, b \in 0 .. 1}

\* the template instances of the switch, lines 126-209
Instantiated == {1, 4, 12, 13, 14}

\* std::string::rfind(','), the last comma, in place of find
rfind(str) ==
  IF \E k \in 1 .. Len(str) : str[k] = ","
  THEN (CHOOSE k \in 1 .. Len(str) : str[k] = "," /\ \A l \in (k + 1) .. Len(str) : str[l] # ",") - 1
  ELSE 0 - 1

\* std::string::find(','): the position of the first comma, counted from 0, or
\* npos, which the int end_pos holds as -1
find(str) ==
  IF \E k \in 1 .. Len(str) : str[k] = ","
  THEN (CHOOSE k \in 1 .. Len(str) : str[k] = "," /\ \A l \in 1 .. (k - 1) : str[l] # ",") - 1
  ELSE 0 - 1

\* std::string::substr(pos, n); n = -1 converts to npos: up to the end
substr(str, pos, n) ==
  IF n < 0 \/ pos + n > Len(str) THEN SubSeq(str, pos + 1, Len(str))
  ELSE SubSeq(str, pos + 1, pos + n)

\* x -> 0, y -> 1, z -> 2, anything else is no axis
single_digitXYZ(c) ==
  CASE c = "x" -> 0 [] c = "y" -> 1 [] c = "z" -> 2 [] OTHER -> 0 - 1

\* lines 773-782: x -> 0, y -> 1, anything else is no axis
single_digit(c) ==
  CASE c = "x" -> 0 [] c = "y" -> 1 [] OTHER -> 0 - 1

JobExit(status) == [job EXCEPT !.at = "exit", !.status = status]
JobGoto(label) == [job EXCEPT !.pc = label]

\* lines 95-100
Main_Magnetic ==
  /\ job.at = "main" /\ job.pc = "magnetic"
  /\ job' = IF job.cfg.MagneticField = 1 /\ job.cfg.is_complex = 0
            THEN JobExit(1) ELSE JobGoto("dim")
  /\ UNCHANGED rest

\* lines 105-106
Main_Dim ==
  /\ job.at = "main" /\ job.pc = "dim"
  /\ job' = IF job.cfg.dim < 1 \/ job.cfg.dim > 3 THEN JobExit(0) ELSE JobGoto("precision")
  /\ UNCHANGED rest

\* lines 108-109
Main_Precision ==
  /\ job.at = "main" /\ job.pc = "precision"
  /\ job' = IF job.cfg.precision < 0 \/ job.cfg.precision > 2
            THEN JobExit(0) ELSE JobGoto("complex")
  /\ UNCHANGED rest

\* lines 111-112
Main_Complex ==
  /\ job.at = "main" /\ job.pc = "complex"
  /\ job' = IF job.cfg.is_complex < 0 \/ job.cfg.is_complex > 1
            THEN JobExit(0) ELSE JobGoto("dispatch")
  /\ UNCHANGED rest

\* lines 114-215: index and the switch
Main_Dispatch ==
  /\ job.at = "main" /\ job.pc = "dispatch"
  /\ LET index == job.cfg.dim - 1 + 3 * job.cfg.precision + job.cfg.is_complex * 3 * 3
     IN job' = IF index \in Instantiated
               THEN [job EXCEPT !.pc = "measure", !.index = index]
               ELSE JobExit(0)
  /\ UNCHANGED rest

\* Simulation.hpp line 532: Measure_Gamma calls process_string(indices_string)
Measure_Gamma ==
  /\ job.at = "main" /\ job.pc = "measure"
  /\ \E str \in Strings :
       job' = [job EXCEPT !.pc = "split", !.input = str, !.indices_string = str,
                          !.strings = <<>>, !.indices = <<>>, !.i = 0, !.j = 0, !.temp = <<>>]
  /\ UNCHANGED rest

\* lines 746-751: one turn of the while loop
PS_Split ==
  /\ job.at = "main" /\ job.pc = "split"
  /\ LET end_pos == find(job.indices_string)
         size == Len(job.indices_string)
     IN job' = [job EXCEPT
                  !.strings = Append(@, substr(job.indices_string, 0, end_pos)),
                  !.indices_string = substr(@, end_pos + 1, size - end_pos - 1),
                  !.pc = IF end_pos # 0 - 1 THEN "split" ELSE "factor"]
  /\ UNCHANGED rest

\* lines 764-768 and 787: the head of the loop over the factors, and the
\* push_back of a factor whose characters are done
PS_Factor ==
  /\ job.at = "main" /\ job.pc = "factor"
  /\ job' = IF job.i = Len(job.strings) THEN JobGoto("check")
            ELSE IF job.j = Len(job.strings[job.i + 1])
            THEN [job EXCEPT !.indices = Append(@, job.temp), !.temp = <<>>,
                             !.i = @ + 1, !.j = 0]
            ELSE JobGoto("char")
  /\ UNCHANGED rest

\* lines 770-786: one character
PS_Char ==
  /\ job.at = "main" /\ job.pc = "char"
  /\ LET single_char == job.strings[job.i + 1][job.j + 1]
     IN job' = IF single_digit(single_char) < 0 THEN JobExit(0)
               ELSE [job EXCEPT !.temp = Append(@, single_digit(single_char)),
                                !.j = @ + 1, !.pc = "factor"]
  /\ UNCHANGED rest

MeasureMoments == {<<2>>, <<3>>, <<2, 2>>, <<2, 2, 2>>}

\* lines 553-566: the dimension and the parity of the moment counts
Measure_Check ==
  /\ job.at = "main" /\ job.pc = "check"
  /\ \E N \in MeasureMoments :
       job' = IF Len(job.indices) # Len(N) \/ \E k \in 1 .. Len(N) : N[k] % 2 # 0
              THEN [job EXCEPT !.at = "exit", !.status = 0, !.N = N]
              ELSE [job EXCEPT !.pc = "return", !.N = N]
  /\ UNCHANGED rest

\* main.cpp lines 217-218: "Program ended with success!", return 1
Main_Return ==
  /\ job.at = "main" /\ job.pc = "return"
  /\ job' = [job EXCEPT !.at = "returned", !.status = 1]
  /\ UNCHANGED rest

InitJob ==
  /\ \E cfg \in Configs :
       job = [at |-> "main", pc |-> "magnetic", cfg |-> cfg, status |-> 0, index |-> 0 - 1,
              input |-> <<>>, indices_string |-> <<>>, strings |-> <<>>, indices |-> <<>>,
              i |-> 0, j |-> 0, temp |-> <<>>, N |-> <<>>]
  /\ geo = <<>> /\ ham = <<>> /\ kv = <<>>
  /\ ghosts = <<>> /\ Gghosts = <<>> /\ pc = <<>> /\ pub = <<>>
  /\ mv = [at |-> "off"] /\ gs = [at |-> "off"] /\ sg = [at |-> "off"]

NextJob ==
  \/ Main_Magnetic \/ Main_Dim \/ Main_Precision \/ Main_Complex \/ Main_Dispatch
  \/ Measure_Gamma \/ PS_Split \/ PS_Factor \/ PS_Char \/ Measure_Check \/ Main_Return

SpecJob == InitJob /\ [][NextJob]_vars

\* the positions of the commas of a string, in order, between 0 and Len + 1
Cuts(str) == <<0>> \o SortedSeq({k \in 1 .. Len(str) : str[k] = ","}) \o <<Len(str) + 1>>

\* the k-th comma-separated factor of a string
Piece(str, k) == SubSeq(str, Cuts(str)[k] + 1, Cuts(str)[k + 1] - 1)

NCommas(str) == Cardinality({k \in 1 .. Len(str) : str[k] = ","})

Parsing == job.at \in {"main", "exit", "returned"} /\ job.pc \in {"check", "return"}

\* C15: process_string returns (number of commas + 1) axis lists, the k-th made
\* of the characters of the k-th comma-separated factor with x -> 0 and y -> 1,
\* an empty factor giving an empty list; a string of x, y and commas is parsed
\* to the end.
C15_SplitsAtEveryComma ==
  job.at # "off" /\ job.pc \in {"split", "factor", "char", "check", "return"} =>
    /\ Parsing =>
         /\ Len(job.indices) = NCommas(job.input) + 1
         /\ \A k \in 1 .. Len(job.indices) :
              /\ Len(job.indices[k]) = Len(Piece(job.input, k))
              /\ \A l \in 1 .. Len(job.indices[k]) :
                   job.indices[k][l] = IF Piece(job.input, k)[l] = "x" THEN 0 ELSE 1
    /\ (\A k \in 1 .. Len(job.input) : job.input[k] \in {"x", "y", ","}) =>
         ~(job.at = "exit" /\ job.pc \in {"split", "factor", "char"})

\* "xx,y" has been parsed to [[0,0],[1]]
C15_Witness ==
  /\ job.at = "main" /\ job.pc = "check"
  /\ job.input = <<"x", "x", ",", "y">> /\ job.indices = <<<<0, 0>>, <<1>>>>

HasOnly(str, chars) == \A k \in 1 .. Len(str) : str[k] \in chars

ParseAborted == job.at = "exit" /\ job.pc = "char"

\* C16 as claimed: the strings over x, y, z and the comma are parsed without
\* aborting, z giving axis 2, and all others abort.
C16_AcceptsXYZ ==
  job.at # "off" /\ job.pc \in {"char", "check", "return"} =>
    /\ ParseAborted => ~HasOnly(job.input, {"x", "y", "z", ","})
    /\ Parsing => HasOnly(job.input, {"x", "y", "z", ","})

\* C16, corrected: the strings over x, y and the comma are parsed without
\* aborting and all others, those with a z included, end the process at the
\* first character that is neither x nor y, with exit(0).
C16_AcceptsXY ==
  job.at # "off" /\ job.pc \in {"char", "check", "return"} =>
    /\ ParseAborted => ~HasOnly(job.input, {"x", "y", ","}) /\ job.status = 0
    /\ Parsing => HasOnly(job.input, {"x", "y", ","})
    /\ job.pc = "char" /\ job.at = "main" =>
         \A k \in 1 .. Len(job.indices) : HasOnly(Piece(job.input, k), {"x", "y"})

\* a string of x, y, z and commas with a z has ended the process
C16_Witness ==
  /\ ParseAborted /\ HasOnly(job.input, {"x", "y", "z", ","})
  /\ job.input = <<"x", ",", "z", "y">>

\* C17: the exit status is 0 exactly when the job completes normally, and not 0
\* for every configuration error.
C17_ZeroExactlyOnSuccess ==
  job.at \in {"exit", "returned"} /\ job.pc \in {"magnetic", "dim", "precision", "complex",
                                                   "dispatch", "char", "check", "return"} =>
    (job.status = 0 <=> job.at = "returned")

(***************************************************************************)
(* The tests of the moment counts at the head of the accumulators          *)
(* (part_000: Gamma2D lines 56-64, Gamma3D lines 196-203, GammaGeneral     *)
(* lines 370-386, Gamma1D lines 293-310 with none) and in the set-up of    *)
(* the single-shot quantities (Simulation.hpp lines 142-144).  What        *)
(* follows the tests is kept as the number of Chebyshev iterations begun.  *)
(***************************************************************************)
MaxMoments == 8

MomentTuples(k) == [1 .. k -> 1 .. MaxMoments]

AccExit(status) == [job EXCEPT !.at = "exit", !.status = status]

\* the loop over the moment counts of lines 58-64, 197-203 and 381-386
OddCount(N) == \E i \in 1 .. Len(N) : N[i] % 2 # 0

\* Gamma1D: nothing is tested before the loops
Gamma1D_Enter ==
  /\ job.at = "acc" /\ job.fn = "Gamma1D" /\ job.pc = "entry"
  /\ job' = [job EXCEPT !.pc = "checked"]
  /\ UNCHANGED rest

\* Gamma2D lines 56-64, Gamma3D lines 196-203
Gamma23D_Enter ==
  /\ job.at = "acc" /\ job.fn \in {"Gamma2D", "Gamma3D"} /\ job.pc = "entry"
  /\ job' = IF OddCount(job.N) THEN AccExit(1) ELSE [job EXCEPT !.pc = "checked"]
  /\ UNCHANGED rest

\* GammaGeneral lines 370-386
GammaGeneral_Enter ==
  /\ job.at = "acc" /\ job.fn = "GammaGeneral" /\ job.pc = "entry"
  /\ job' = IF job.dim # Len(job.N) \/ OddCount(job.N) THEN AccExit(1)
            ELSE [job EXCEPT !.pc = "checked"]
  /\ UNCHANGED rest

\* Simulation.hpp lines 142-144: NMoments_special.at(i) = 2*(NMoments_special.at(i)/2)
SingleShot_Setup ==
  /\ job.at = "acc" /\ job.fn = "Single_Shot" /\ job.pc = "entry"
  /\ job' = [job EXCEPT !.pc = "checked", !.N = [i \in DOMAIN job.N |-> 2 * (job.N[i] \div 2)]]
  /\ UNCHANGED rest

\* the first Multiply of the accumulator
Acc_Iterate ==
  /\ job.at = "acc" /\ job.pc = "checked"
  /\ job' = [job EXCEPT !.pc = "iterating", !.cheb = @ + 1]
  /\ UNCHANGED rest

InitMoments ==
  /\ \E fn \in {"Gamma1D", "Gamma2D", "Gamma3D", "GammaGeneral", "Single_Shot"} :
     \E k \in 1 .. 3 : \E N \in MomentTuples(k) : \E dim \in 1 .. 3 :
       /\ fn \in {"Gamma1D", "Single_Shot"} => k = 1
       /\ fn = "Gamma2D" => k = 2
       /\ fn = "Gamma3D" => k = 3
       /\ fn = "GammaGeneral" => k <= 2
       /\ fn # "GammaGeneral" => dim = k
       /\ job = [at |-> "acc", fn |-> fn, given |-> N, N |-> N, dim |-> dim, pc |-> "entry",
                 status |-> 0, cheb |-> 0]
  /\ geo = <<>> /\ ham = <<>> /\ kv = <<>>
  /\ ghosts = <<>> /\ Gghosts = <<>> /\ pc = <<>> /\ pub = <<>>
  /\ mv = [at |-> "off"] /\ gs = [at |-> "off"] /\ sg = [at |-> "off"]

NextMoments ==
  \/ Gamma1D_Enter \/ Gamma23D_Enter \/ GammaGeneral_Enter \/ SingleShot_Setup \/ Acc_Iterate

SpecMoments == InitMoments /\ [][NextMoments]_vars

IsPowerOfTwo(n) == \E k \in 0 .. 30 : n = 2 ^ k

\* C18: a moment count that is no power of two makes every accumulator, and the
\* single-shot set-up, end the process with an error before any Chebyshev
\* iteration.
C18_NonPowerOfTwoRejected ==
  job.at \in {"acc", "exit"} /\ job.pc \in {"entry", "checked", "iterating"}
    /\ (\E i \in 1 .. Len(job.given) : ~IsPowerOfTwo(job.given[i])) =>
    /\ job.cheb = 0
    /\ job.pc # "entry" => job.at = "exit" /\ job.status # 0
(***************************************************************************)
(* Single_Shot, Simulation.hpp lines 1015-1209: for every energy, disorder *)
(* realisation and random vector the left vector phi1 and the right vector *)
(* phi2 are accumulated along the Chebyshev recursion of phi and           *)
(* contracted; the team is advanced statement by statement as in the       *)
(* accumulators above.  The imaginary parts of green() are kept in tenths. *)
(***************************************************************************)
MaxCheb == 4

\* N_cheb_moments after NMoments = 2*(NMoments/2)
ChebCounts == {2 * k : k \in 0 .. (MaxCheb \div 2)}

\* the energies of energy_array: 1 stands for E = 0, 2 for E = 0.5; the broadening
\* finite_gamma is 0.5
EnergyArrays == {<<1>>, <<2, 1>>}

\* first_indices.at(0), second_indices.at(0)
ShotIndices == {<<0, 1>>, <<1, 1>>}

\* 10 * Im((-1)^n * 2 * i * exp(-i*n*acos(z)) / sqrt(1 - z*z)) at z = E + i*s*0.5,
\* rounded; s = 1 or -1
GreenTenths(E, s, n) ==
  LET plus0 == <<18, 0, -7, 0, 3, 0>>
      minus0 == <<18, 0, -47, 0, 123, 0>>
      plus5 == <<18, -7, -3, 4, -1, -1>>
      minus5 == <<18, -7, -43, 84, -1, -321>>
      row == IF E = 1 THEN (IF s = 1 THEN plus0 ELSE minus0)
             ELSE (IF s = 1 THEN plus5 ELSE minus5)
  IN row[n + 1]

\* green() evaluated at the conjugate energy
green_imagConj(n, sigma, energy) == GreenTenths(energy.E, 0 - sigma * energy.gamma, n)

\* green(n, sigma, energy).imag(), lines 20-24; green(n, -1, z) and green(n, 1, conj(z))
\* have the same imaginary part
green_imag(n, sigma, energy) == GreenTenths(energy.E, sigma * energy.gamma, n)

\* std::complex<double> energy(energy_array(ener), finite_gamma), line 1084
ShotEnergy(s) == [E |-> s.energies[s.ener + 1], gamma |-> 1]

\* y.v.col(0) = x.v.col(x.get_index()) * c
ShotSet(g, vs, dst, src, c) ==
  Eval([t \in Threads(g) |->
          [vs[t] EXCEPT ![dst] = SetCol(@, 0, [i \in Cells(g) |-> Col(vs[t][src])[i] * c])]])

\* y.v.col(0) += x.v.col(x.get_index()) * c
ShotAdd(g, vs, dst, src, c) ==
  Eval([t \in Threads(g) |->
          [vs[t] EXCEPT ![dst] =
             SetCol(@, 0, [i \in Cells(g) |-> @.v[1][i] + Col(vs[t][src])[i] * c])]])

\* phi.Velocity(phi1.v.col(0).data(), phi.v.col(0).data(), axis): phi1.col(0) is
\* written from phi.col(0), then phi exchanges the column of its own index
ShotVelocity(g, h, vs, axis) ==
  ExchangeVector(g,
    Eval([t \in Threads(g) |->
            [vs[t] EXCEPT !.phi1 =
               SetCol(@, 0,
                      RunOps(<<vs[t].phi1.v[1], vs[t].phi.v[1]>>,
                             VelocityOps(g, h, [kind |-> "V", a1 |-> axis, a2 |-> 0]),
                             1, 2, 2)[1])]]),
    "phi")

ShotStart(g, N, ix, en, c) ==
  [at |-> "shot", pc |-> "vector", N |-> N, first |-> ix[1], second |-> ix[2],
   energies |-> en, ener |-> 0, NDisorder |-> c[1], NRandomV |-> c[2],
   disorder |-> 0, randV |-> 0, average |-> 0, n |-> 0, vectors |-> 0,
   cond |-> [t \in Threads(g) |-> [e \in 1 .. Len(en) |-> <<0, 1>>]],
   written |-> <<>>]

\* lines 1095-1107: the random vector, its velocity and the term n = 0 of phi1
Shot_Vector ==
  /\ job.at = "shot" /\ job.pc = "vector"
  /\ \E p \in 1 .. NPatterns :
       LET v1 == ExchangeVector(geo, initiate_vector(geo, ham, kv, "phi0", p), "phi0")
           v2 == TeamVelocity(geo, ham, SetIndex(geo, v1, "phi", 0), "phi", "phi0",
                              [kind |-> "V", a1 |-> job.first, a2 |-> 0])
           v3 == ExchangeVector(geo, v2, "phi")
       IN kv' = ShotSet(geo, v3, "phi1", "phi", green_imag(0, 1, ShotEnergy(job)) \div 2)
  /\ job' = [job EXCEPT !.pc = "left", !.n = 1]
  /\ UNCHANGED <<geo, ham, ghosts, Gghosts, pc, pub, mv, gs, sg>>

\* one more term of the vector dst: Multiply<0> for n = 1 (lines 1109-1111,
\* 1136-1138), Multiply<1> for n >= 2 (lines 1115-1119, 1140-1144)
ShotTerm(dst) ==
  ShotAdd(geo, TeamMultiply(geo, ham, kv, "phi", IF job.n = 1 THEN 0 ELSE 1),
          dst, "phi", green_imag(job.n, 1, ShotEnergy(job)))

Shot_Left ==
  /\ job.at = "shot" /\ job.pc = "left"
  /\ kv' = ShotTerm("phi1")
  /\ job' = [job EXCEPT !.n = @ + 1,
                        !.pc = IF job.n + 1 < job.N THEN "left" ELSE "velocity"]
  /\ UNCHANGED <<geo, ham, ghosts, Gghosts, pc, pub, mv, gs, sg>>

\* lines 1121-1124: phi.v.col(0) = phi1.v.col(0) and the second velocity, written
\* into phi1 through phi
Shot_Velocity ==
  /\ job.at = "shot" /\ job.pc = "velocity"
  /\ kv' = ShotVelocity(geo, ham, CopyCol0(geo, kv, "phi", "phi1"), job.second)
  /\ job' = [job EXCEPT !.pc = "restart"]
  /\ UNCHANGED <<geo, ham, ghosts, Gghosts, pc, pub, mv, gs, sg>>

\* lines 1125-1134: the ghosts of phi1 emptied, phi restarted from phi0 and the
\* term n = 0 of phi2
Shot_Restart ==
  /\ job.at = "shot" /\ job.pc = "restart"
  /\ LET v2 == EmptyGhosts(geo, kv, "phi1", 0)
         v3 == CopyCol0(geo, SetIndex(geo, v2, "phi", 0), "phi", "phi0")
     IN kv' = ShotSet(geo, v3, "phi2", "phi", green_imag(0, 1, ShotEnergy(job)) \div 2)
  /\ job' = [job EXCEPT !.pc = "right", !.n = 1]
  /\ UNCHANGED <<geo, ham, ghosts, Gghosts, pc, pub, mv, gs, sg>>

Shot_Right ==
  /\ job.at = "shot" /\ job.pc = "right"
  /\ kv' = ShotTerm("phi2")
  /\ job' = [job EXCEPT !.n = @ + 1,
                        !.pc = IF job.n + 1 < job.N THEN "right" ELSE "contract"]
  /\ UNCHANGED <<geo, ham, ghosts, Gghosts, pc, pub, mv, gs, sg>>

\* lines 1146-1147 and the heads of the three loops: the running mean of
\* phi1.adjoint() * phi2 for this energy; average restarts with every energy
Shot_Contract ==
  /\ job.at = "shot" /\ job.pc = "contract"
  /\ LET lastV == job.randV + 1 = job.NRandomV
         lastD == lastV /\ job.disorder + 1 = job.NDisorder
         lastE == lastD /\ job.ener + 1 = Len(job.energies)
     IN job' = [job EXCEPT
                  !.cond = [t \in Threads(geo) |->
                              [@[t] EXCEPT ![job.ener + 1] =
                                 Welford(@, Dot(geo, kv[t].phi1.v[1], kv[t].phi2.v[1]),
                                         job.average)]],
                  !.average = IF lastD THEN 0 ELSE @ + 1,
                  !.vectors = @ + 1,
                  !.randV = IF lastV THEN 0 ELSE @ + 1,
                  !.disorder = IF lastD THEN 0 ELSE IF lastV THEN @ + 1 ELSE @,
                  !.ener = IF lastD THEN @ + 1 ELSE @,
                  !.pc = IF lastE THEN "reduce" ELSE "vector"]
  /\ UNCHANGED <<geo, ham, kv, ghosts, Gghosts, pc, pub, mv, gs, sg>>

\* the sum of the fractions s[1], ..., s[k]
FracSum(s, k) ==
  LET RECURSIVE Go(_)
      Go(j) == IF j = 0 THEN <<0, 1>>
               ELSE LET r == Go(j - 1)
                    IN Frac(r[1] * s[j][2] + s[j][1] * r[2], r[2] * s[j][2])
  IN Go(k)

\* lines 1160-1206: every thread adds cond_array to Global.singleshot_cond, the
\* master multiplies by factor = -4*spin_degeneracy*number_of_orbitals/pi/area and
\* writes the row of conductivities; the values are kept in units of 1/(pi*area)
Shot_Reduce ==
  /\ job.at = "shot" /\ job.pc = "reduce"
  /\ job' = [job EXCEPT
               !.pc = "done",
               !.written =
                  [e \in 1 .. Len(job.energies) |->
                     LET sum == FracSum([k \in 1 .. nThreads(geo) |-> job.cond[k - 1][e]],
                                        nThreads(geo))
                     IN Frac((0 - 4) * geo.Orb * sum[1], sum[2])]]
  /\ UNCHANGED <<geo, ham, kv, ghosts, Gghosts, pc, pub, mv, gs, sg>>

InitShot ==
  /\ geo \in TeamGeoms
  /\ ham = GammaHam(geo)
  /\ kv = [t \in Threads(geo) |->
             [phi0 |-> NewVector(geo, 1), phi |-> NewVector(geo, 2),
              phi1 |-> NewVector(geo, 2), phi2 |-> NewVector(geo, 2)]]
  /\ \E N \in ChebCounts : \E ix \in ShotIndices : \E en \in EnergyArrays :
       \E c \in SampleCounts : job = ShotStart(geo, N, ix, en, c)
  /\ ghosts = <<>> /\ Gghosts = <<>> /\ pc = <<>> /\ pub = <<>>
  /\ mv = [at |-> "off"]
  /\ gs = [at |-> "off"]
  /\ sg = [at |-> "off"]

NextShot ==
  \/ Shot_Vector \/ Shot_Left \/ Shot_Velocity \/ Shot_Restart \/ Shot_Right
  \/ Shot_Contract \/ Shot_Reduce

SpecShot == InitShot /\ [][NextShot]_vars

\* sum over n = 0 .. max(N, 2) - 1 of c(n) * T_n(H) applied to the columns `start`,
\* c(0) = GreenTenths(E, s, 0)/2 and c(n) = GreenTenths(E, s, n) otherwise, T_n by
\* T_0 = 1, T_1 = H, T_n = 2*H*T_(n-1) - T_(n-2)
ChebSum(g, h, start, N, E, s) ==
  LET RECURSIVE Go(_, _, _)
      Go(n, vs, acc) ==
        IF n >= Max2(N, 2) THEN acc
        ELSE LET v1 == TeamMultiply(g, h, vs, "w", IF n = 1 THEN 0 ELSE 1)
             IN Go(n + 1, v1,
                   Eval([t \in Threads(g) |->
                           [i \in Cells(g) |->
                              acc[t][i] + Col(v1[t].w)[i] * GreenTenths(E, s, n)]]))
  IN Go(1,
        Eval([t \in Threads(g) |->
                [w |-> [index |-> 0, memory |-> 2, v |-> <<start[t], start[t]>>]]]),
        Eval([t \in Threads(g) |->
                [i \in Cells(g) |-> start[t][i] * (GreenTenths(E, s, 0) \div 2)]]))

\* the velocity along `axis` of the columns `start`, ghosts exchanged
VelocityOf(g, h, start, axis) ==
  LET vs == Eval([t \in Threads(g) |->
                    [a |-> [index |-> 0, memory |-> 1, v |-> <<start[t]>>],
                     b |-> [index |-> 0, memory |-> 1, v |-> <<start[t]>>]]])
      out == TeamVelocity(g, h, vs, "b", "a", [kind |-> "V", a1 |-> axis, a2 |-> 0])
  IN Eval([t \in Threads(g) |-> out[t].b.v[1]])

Phi0 == [t \in Threads(geo) |-> kv[t].phi0.v[1]]

\* the left sum before the second velocity, with the coefficients of sign s
LeftSum(s) ==
  ChebSum(geo, ham, VelocityOf(geo, ham, Phi0, job.first), job.N,
          job.energies[job.ener + 1], s)

\* the right sum, with the coefficients of sign s
RightSum(s) == ChebSum(geo, ham, Phi0, job.N, job.energies[job.ener + 1], s)

\* C19 as stated: when the left recursion ends phi1 is the sum of the g_n T_n v|0>
\* with the coefficients at E + i*gamma, and when the right recursion ends phi2 is
\* the sum of the g_n T_n |0> with the coefficients at E - i*gamma
C19_RightSideOppositeGamma ==
  job.at = "shot" =>
    /\ job.pc = "velocity" =>
         \A t \in Threads(geo) : kv[t].phi1.v[1] = LeftSum(1)[t]
    /\ job.pc = "contract" =>
         \A t \in Threads(geo) : kv[t].phi2.v[1] = RightSum(0 - 1)[t]

\* C19 (amended): both sides use the same coefficients Im green(n, 1, E + i*gamma),
\* the term n = 0 halved and the terms n = 0, 1 always present; phi1 is the sum of
\* the c_n T_n v^a |0> when the left recursion ends, and at the contraction it is
\* the second velocity of that sum with emptied ghosts while phi2 is the sum of
\* the c_n T_n |0>
C19_BothSidesSameGamma ==
  job.at = "shot" =>
    /\ job.pc = "velocity" =>
         \A t \in Threads(geo) : kv[t].phi1.v[1] = LeftSum(1)[t]
    /\ job.pc = "contract" =>
         LET left == VelocityOf(geo, ham, LeftSum(1), job.second)
         IN \A t \in Threads(geo) :
              /\ kv[t].phi2.v[1] = RightSum(1)[t]
              /\ \A i \in Cells(geo) :
                   kv[t].phi1.v[1][i] = IF IsBulk(geo, i) THEN left[t][i] ELSE 0

\* a contraction of two non-zero vectors built from more than two moments, where
\* the coefficients of the two signs differ
C19_Witness ==
  /\ job.at = "shot" /\ job.pc = "contract" /\ job.N > 2
  /\ \E t \in Threads(geo) : \E i \in Cells(geo) :
       /\ kv[t].phi2.v[1][i] # 0
       /\ kv[t].phi2.v[1][i] # RightSum(0 - 1)[t][i]
  /\ \E t \in Threads(geo) : \E i \in Cells(geo) : kv[t].phi1.v[1][i] # 0

(***************************************************************************)
(* The parallel region of GlobalSimulation, Simulation.hpp lines 176-229:  *)
(* the position of every thread of the team among the barriers of the      *)
(* region, of time_kpm (lines 892-915), of Single_Shot and of the          *)
(* Exchange_Boundaries calls they make (KPM_Vector2D.hpp lines 517-579).   *)
(* A barrier that the threads reach from different sites is outside the    *)
(* OpenMP rules: it either releases the team on the count of the arrivals  *)
(* or never releases.                                                      *)
(***************************************************************************)
MaxRegionThreads == 3

\* stands for the 100 of time_kpm(100), line 185
MaxAverage == 2

\* the quantities requested, in the order of lines 201-224 (SingleShotXX != -1,
\* SingleShotXY != -1, GammaXXiX, GammaXiXX, GammaXY, GammaXiY)
QuantityLists ==
  {<<>>, <<"SingleShotXX">>, <<"SingleShotXX", "SingleShotXY">>, <<"GammaXY">>,
   <<"SingleShotXY", "GammaXiY">>}

IsSingleShot(q) == q \in {"SingleShotXX", "SingleShotXY"}

\* Exchange_Boundaries calls of one Single_Shot with one energy, one disorder
\* realisation, one random vector and N_cheb_moments <= 2: phi0, Velocity, phi,
\* Multiply<0>, Velocity, Multiply<0>
ShotExchanges == 6

\* Exchange_Boundaries calls of one Measure_Gamma with one disorder realisation, one
\* random vector and two moments per index: kpm1 (line 603), Velocity or Velocity2,
\* Multiply<0> (lines 711, 725)
GammaExchanges == 3

RegionThreads == 0 .. (job.T - 1)

RegionBarriers == {"bar0", "bar1", "bar2", "b193", "b1167", "b1202", "b830", "b840", "end"}

\* where a thread continues after the barrier it waits at
AfterRegionBarrier(b) ==
  CASE b = "bar0" -> "pub" [] b = "bar1" -> "read" [] b = "bar2" -> "write"
    [] b = "b193" -> "quantity" [] b = "b1167" -> "m1170" [] b = "b1202" -> "quantity"
    [] b = "b830" -> "c838" [] b = "b840" -> "m881"
    [] b = "end" -> "gone"

RegionStart(T, qs) ==
  [at |-> "region", T |-> T, quantities |-> qs,
   th |-> [t \in 0 .. (T - 1) |->
             [at |-> "start", fn |-> "region", left |-> 0, d |-> 0, q |-> 0, passed |-> 0,
              stale |-> FALSE]],
   slot |-> [t \in 0 .. (T - 1) |-> "none"], hung |-> FALSE]

Th(t) == job.th[t]

\* line 181, then the master block or the barrier of line 193
Region_Construct(t) ==
  /\ job.at = "region" /\ Th(t).at = "start"
  /\ job' = [job EXCEPT !.th[t].at = IF IsMaster(t) THEN "m184" ELSE "b193"]
  /\ UNCHANGED rest

\* lines 185 and 897-903: the master enters time_kpm; Multiply<0> ends in
\* Exchange_Boundaries
TimeKpm_Start(t) ==
  /\ job.at = "region" /\ Th(t).at = "m184"
  /\ job' = [job EXCEPT !.th[t].at = "bar0", !.th[t].fn = "time_kpm",
                        !.th[t].left = MaxAverage, !.th[t].d = 0]
  /\ UNCHANGED rest

\* lines 906-907: one Multiply<1> of the timed loop
TimeKpm_Multiply(t) ==
  /\ job.at = "region" /\ Th(t).at = "calls" /\ Th(t).fn = "time_kpm" /\ Th(t).left > 0
  /\ job' = [job EXCEPT !.th[t].at = "bar0", !.th[t].left = @ - 1, !.th[t].d = 0]
  /\ UNCHANGED rest

\* lines 908-912 and 186-193: time_kpm returns, the master leaves its block
TimeKpm_Return(t) ==
  /\ job.at = "region" /\ Th(t).at = "calls" /\ Th(t).fn = "time_kpm" /\ Th(t).left = 0
  /\ job' = [job EXCEPT !.th[t].at = "b193", !.th[t].fn = "region"]
  /\ UNCHANGED rest

\* KPM_Vector2D.hpp lines 530-553: stage and copy to Global.ghosts
Exchange_Publish(t) ==
  /\ job.at = "region" /\ Th(t).at = "pub"
  /\ job' = [job EXCEPT !.th[t].at = "bar1", !.slot[t] = Th(t).fn]
  /\ UNCHANGED rest

\* KPM_Vector2D.hpp lines 555-558: the slices of the neighbours are read
Exchange_Read(t) ==
  /\ job.at = "region" /\ Th(t).at = "read"
  /\ job' = [job EXCEPT !.th[t].at = "bar2",
                        !.th[t].stale = @ \/ \E u \in RegionThreads : job.slot[u] # Th(t).fn]
  /\ UNCHANGED rest

\* KPM_Vector2D.hpp lines 561-578: ghosts written, next axis or return
Exchange_Write(t) ==
  /\ job.at = "region" /\ Th(t).at = "write"
  /\ job' = [job EXCEPT !.th[t].at = IF Th(t).d = 0 THEN "pub" ELSE "calls",
                        !.th[t].d = IF Th(t).d = 0 THEN 1 ELSE 0]
  /\ UNCHANGED rest

\* lines 201-216: the next requested Single_Shot (its first Exchange_Boundaries is
\* that of phi0, line 1096)
Region_SingleShot(t) ==
  /\ job.at = "region" /\ Th(t).at = "quantity" /\ Th(t).q < Len(job.quantities)
  /\ IsSingleShot(job.quantities[Th(t).q + 1])
  /\ job' = [job EXCEPT !.th[t].at = "bar0", !.th[t].fn = job.quantities[Th(t).q + 1],
                        !.th[t].left = ShotExchanges - 1, !.th[t].d = 0]
  /\ UNCHANGED rest

\* the next Velocity or Multiply of Single_Shot or Measure_Gamma
Shot_Call(t) ==
  /\ job.at = "region" /\ Th(t).at = "calls" /\ Th(t).fn # "time_kpm" /\ Th(t).left > 0
  /\ job' = [job EXCEPT !.th[t].at = "bar0", !.th[t].left = @ - 1, !.th[t].d = 0]
  /\ UNCHANGED rest

\* lines 1160-1167: the critical add, then the barrier
Shot_Critical(t) ==
  /\ job.at = "region" /\ Th(t).at = "calls" /\ IsSingleShot(Th(t).fn) /\ Th(t).left = 0
  /\ job' = [job EXCEPT !.th[t].at = "b1167"]
  /\ UNCHANGED rest

\* lines 1170-1202: the master block of Single_Shot, then the barrier
Shot_MasterWrite(t) ==
  /\ job.at = "region" /\ Th(t).at = "m1170"
  /\ job' = [job EXCEPT !.th[t].at = "b1202", !.th[t].q = @ + 1, !.th[t].fn = "region"]
  /\ UNCHANGED rest

\* lines 221-224 and 575-603: the next requested Measure_Gamma (its first
\* Exchange_Boundaries is that of kpm1, line 603)
Region_MeasureGamma(t) ==
  /\ job.at = "region" /\ Th(t).at = "quantity" /\ Th(t).q < Len(job.quantities)
  /\ ~IsSingleShot(job.quantities[Th(t).q + 1])
  /\ job' = [job EXCEPT !.th[t].at = "bar0", !.th[t].fn = job.quantities[Th(t).q + 1],
                        !.th[t].left = GammaExchanges - 1, !.th[t].d = 0]
  /\ UNCHANGED rest

\* store_gamma, lines 826-830 and 849-853: the master zeroes the global array, then
\* the barrier
Gamma_Zero(t) ==
  /\ job.at = "region" /\ Th(t).at = "calls" /\ Th(t).left = 0
  /\ Th(t).fn # "time_kpm" /\ ~IsSingleShot(Th(t).fn)
  /\ job' = [job EXCEPT !.th[t].at = "b830"]
  /\ UNCHANGED rest

\* store_gamma, lines 838-840 and 859-861: the critical add, then the barrier
Gamma_Add(t) ==
  /\ job.at = "region" /\ Th(t).at = "c838"
  /\ job' = [job EXCEPT !.th[t].at = "b840"]
  /\ UNCHANGED rest

\* store_gamma, lines 881-886: the master writes, every thread deletes its file
\* object; no barrier follows
Gamma_Write(t) ==
  /\ job.at = "region" /\ Th(t).at = "m881"
  /\ job' = [job EXCEPT !.th[t].at = "quantity", !.th[t].q = @ + 1, !.th[t].fn = "region"]
  /\ UNCHANGED rest

\* line 229: the implicit barrier that ends the region
Region_End(t) ==
  /\ job.at = "region" /\ Th(t).at = "quantity" /\ Th(t).q >= Len(job.quantities)
  /\ job' = [job EXCEPT !.th[t].at = "end"]
  /\ UNCHANGED rest

\* the barrier site and function a thread waits at
Site(t) == <<Th(t).at, Th(t).fn, Th(t).d>>

SameSite == \A t, u \in RegionThreads : Site(t) = Site(u)

\* #pragma omp barrier: the team is released when every thread has arrived
Region_Release ==
  /\ job.at = "region" /\ ~job.hung
  /\ \A t \in RegionThreads : Th(t).at \in RegionBarriers
  /\ job' = [job EXCEPT !.th = [t \in RegionThreads |->
                                  [@[t] EXCEPT !.at = AfterRegionBarrier(@),
                                               !.passed = @ + 1]]]
  /\ UNCHANGED rest

\* the team waits at barriers of different sites and is never released
Region_Hang ==
  /\ job.at = "region" /\ ~job.hung
  /\ \A t \in RegionThreads : Th(t).at \in RegionBarriers
  /\ ~SameSite
  /\ job' = [job EXCEPT !.hung = TRUE]
  /\ UNCHANGED rest

InitRegion ==
  /\ \E T \in 1 .. MaxRegionThreads : \E qs \in QuantityLists : job = RegionStart(T, qs)
  /\ geo = <<>> /\ ham = <<>> /\ kv = <<>>
  /\ ghosts = <<>> /\ Gghosts = <<>> /\ pc = <<>> /\ pub = <<>>
  /\ mv = [at |-> "off"] /\ gs = [at |-> "off"] /\ sg = [at |-> "off"]

NextRegion ==
  \/ \E t \in RegionThreads : Region_Construct(t)
  \/ \E t \in RegionThreads : TimeKpm_Start(t)
  \/ \E t \in RegionThreads : TimeKpm_Multiply(t)
  \/ \E t \in RegionThreads : TimeKpm_Return(t)
  \/ \E t \in RegionThreads : Exchange_Publish(t)
  \/ \E t \in RegionThreads : Exchange_Read(t)
  \/ \E t \in RegionThreads : Exchange_Write(t)
  \/ \E t \in RegionThreads : Region_SingleShot(t)
  \/ \E t \in RegionThreads : Shot_Call(t)
  \/ \E t \in RegionThreads : Shot_Critical(t)
  \/ \E t \in RegionThreads : Shot_MasterWrite(t)
  \/ \E t \in RegionThreads : Region_MeasureGamma(t)
  \/ \E t \in RegionThreads : Gamma_Zero(t)
  \/ \E t \in RegionThreads : Gamma_Add(t)
  \/ \E t \in RegionThreads : Gamma_Write(t)
  \/ \E t \in RegionThreads : Region_End(t)
  \/ Region_Release
  \/ Region_Hang

SpecRegion == InitRegion /\ [][NextRegion]_vars

\* C20: in the parallel region every thread meets the same barriers the same
\* number of times: whenever the whole team waits, it waits at one site of one
\* function, no thread reads a slice published in another phase, the team is never
\* stuck, and no thread has left the region while another still waits inside it
C20_SameBarriersOnEveryThread ==
  job.at = "region" =>
    /\ (\A t \in RegionThreads : Th(t).at \in RegionBarriers) => SameSite
    /\ \A t \in RegionThreads : ~Th(t).stale
    /\ ~job.hung
    /\ \A t, u \in RegionThreads :
         Th(t).at = "gone" => Th(u).at \in {"end", "gone"} /\ Th(u).passed = Th(t).passed

(***************************************************************************)
(* The shared staging region during Exchange_Boundaries (specification     *)
(* Spec)                                                                   *)
(***************************************************************************)
\* line 553: the part of Global.ghosts thread t copies to for axis d
SliceOf(g, d, t) ==
  {k \in DOMAIN Gghosts : k >= 2 * BSize(g, d) * t /\ k < 2 * BSize(g, d) * (t + 1)}

\* thread u reads the slice of thread t for axis d (lines 555-556)
ReadsFrom(g, u, d, t) == \E b \in {0, 1} : block(g, u, d, b) = t

\* C21: a thread that is about to copy to its slice of Global.ghosts (for the next
\* axis or in the next call) finds that no thread reading that slice is still
\* before or inside its copy of what the slice held; the slices of the threads for
\* one axis are disjoint parts of Global.ghosts of full length
C21_NoOverwriteBeforeNeighbourRead ==
  /\ \A t \in Threads(geo) : pc[t].at = "pub" =>
       \A u \in Threads(geo) :
          ReadsFrom(geo, u, pub[t][2], t) =>
            ~(pc[u].at \in {"bar1", "read"} /\ <<pc[u].e, pc[u].d>> = pub[t])
  /\ \A d \in {0, 1} : \A t \in Threads(geo) :
       /\ Cardinality(SliceOf(geo, d, t)) = 2 * BSize(geo, d)
       /\ \A u \in Threads(geo) : u # t => SliceOf(geo, d, t) \cap SliceOf(geo, d, u) = {}

\* a thread about to overwrite its slice for axis 1 while a neighbour that read the
\* slice for axis 0 has not yet left the exchange of axis 0, and a thread about to
\* overwrite it in the next call
C21_Witness ==
  /\ nThreads(geo) >= 2
  /\ \/ \E t, u \in Threads(geo) :
          /\ t # u /\ pc[t].at = "pub" /\ pc[t].d = 1 /\ pub[t] = <<pc[t].e, 0>>
          /\ ReadsFrom(geo, u, 0, t) /\ pc[u].at = "write" /\ pc[u].d = 0
     \/ \E t, u \in Threads(geo) :
          /\ t # u /\ pc[t].at = "pub" /\ pc[t].d = 0 /\ pc[t].e = 2
          /\ ReadsFrom(geo, u, 1, t) /\ pc[u].at = "bar0"

\* thread t moves from position a to position b
Moves(t, a, b) == pc[t].at = a /\ pc'[t].at = b

Moved(t) == pc'[t].at # pc[t].at \/ pc'[t].d # pc[t].d

\* C22 as stated: the block that stages the faces does not copy to the shared
\* region (a barrier comes first), and the block that reads the neighbour slices
\* goes on to the ghost faces without a barrier
C22_BarrierBetweenStageAndCopy ==
  [][\A t \in Threads(geo) :
       /\ (pc[t].at = "pub" /\ Moved(t)) => Gghosts' = Gghosts
       /\ (pc[t].at = "read" /\ Moved(t)) => pc'[t].at = "write"]_vars

\* C22 (amended): after the barrier at the entry of the call, for each axis: the
\* faces are staged and the staging array is copied to the shared region at the
\* offset of the thread in one block, barrier, the neighbour slices are read into
\* the staging array and nothing else is written, barrier, the staging array is
\* written to the ghost faces; axis 1 follows axis 0 without a further barrier
C22_StageCopyBarrierReadBarrierWrite ==
  [][\A t \in Threads(geo) : Moved(t) =>
       \/ pc[t].at \in {"fill", "mul"} /\ pc'[t].at = "bar0" /\ pc'[t].d = 0
       \/ Moves(t, "bar0", "pub") /\ pc[t].d = 0 /\ UNCHANGED <<kv, ghosts, Gghosts>>
       \/ /\ Moves(t, "pub", "bar1") /\ pc'[t].d = pc[t].d
          /\ ghosts'[t] = StageFaces(geo, pc[t].d, Col(kv[t].kpm1), ghosts[t])
          /\ \A k \in SliceOf(geo, pc[t].d, t) :
               Gghosts'[k] = ghosts'[t][k - 2 * BSize(geo, pc[t].d) * t]
          /\ \A k \in DOMAIN Gghosts \ SliceOf(geo, pc[t].d, t) : Gghosts'[k] = Gghosts[k]
          /\ kv' = kv
       \/ Moves(t, "bar1", "read") /\ UNCHANGED <<kv, ghosts, Gghosts>>
       \/ Moves(t, "read", "bar2") /\ UNCHANGED <<kv, Gghosts>>
       \/ Moves(t, "bar2", "write") /\ UNCHANGED <<kv, ghosts, Gghosts>>
       \/ /\ pc[t].at = "write" /\ UNCHANGED <<ghosts, Gghosts>>
          /\ IF pc[t].d = 0 THEN pc'[t].at = "pub" /\ pc'[t].d = 1
             ELSE pc'[t].at \in {"check", "mul", "done"} /\ pc'[t].d = 0
       \/ pc[t].at = "check" /\ pc'[t].at \in {"mul", "done"}]_vars

\* both axes of a call after the first have been exchanged by a team
C22_Witness ==
  /\ nThreads(geo) >= 2
  /\ \A t \in Threads(geo) : pc[t].at \in {"mul", "done"} /\ pc[t].n >= 1

(***************************************************************************)
(* The deposit indices of Gamma2D (part_000 lines 93-128) and Gamma3D      *)
(* (lines 231-279) over one random vector: the loops over the blocks and   *)
(* the flat index every element of a MEMORY x MEMORY block is added at.    *)
(* A write beyond the end of the array is undefined: the run either goes   *)
(* on with memory outside the array overwritten, or ends there.            *)
(***************************************************************************)
MaxHalfCount == 10

\* the moment counts that pass the test N_moments.at(i) % 2 != 0
EvenCounts == {2 * k : k \in 1 .. MaxHalfCount}

Counts2D == {<<a, b>> : a \in EvenCounts, b \in EvenCounts}

Counts3D ==
  {<<a, b, c>> : a \in {x \in EvenCounts : x >= MEMORY - 2 /\ x <= MEMORY + 2},
                 b \in {x \in EvenCounts : x >= MEMORY - 2 /\ x <= MEMORY + 2},
                 c \in {2}}

\* ind = (m+j)*N_moments.at(0) + n+i, line 124
Index2D(N, n, m, i, j) == (m + j) * N[1] + n + i

\* index = p*N_moments.at(1)*N_moments.at(0) + (m+j)*N_moments.at(0) + n+i, line 273
Index3D(N, p, n, m, i, j) == p * N[2] * N[1] + (m + j) * N[1] + n + i

DepositIndex(s, i, j) ==
  IF s.fn = "Gamma2D" THEN Index2D(s.N, s.n, s.m, i, j)
  ELSE Index3D(s.N, s.p, s.n, s.m, i, j)

\* the number of elements (i, j) of the block deposited at idx
BlockHits(s, idx) ==
  Cardinality({x \in (0 .. (MEMORY - 1)) \X (0 .. (MEMORY - 1)) :
                 DepositIndex(s, x[1], x[2]) = idx})

\* the indices of the block that lie beyond the array
BlockOutside(s) ==
  {DepositIndex(s, x[1], x[2]) : x \in (0 .. (MEMORY - 1)) \X (0 .. (MEMORY - 1))}
  \ (0 .. (SeqProd(s.N) - 1))

DepositStart(fn, N) ==
  [at |-> "deposit", fn |-> fn, N |-> N, pc |-> "block", n |-> 0, m |-> 0, p |-> 0,
   blocks |-> 0, average |-> 0,
   hits |-> [idx \in 0 .. (SeqProd(N) - 1) |-> 0], outside |-> {}, beyond |-> FALSE]

\* the deposit of one block; pc is "crash" when a write beyond the array ends the run
Deposited(s, next) ==
  LET out == BlockOutside(s)
      after == [s EXCEPT !.hits = [idx \in DOMAIN s.hits |-> s.hits[idx] + BlockHits(s, idx)],
                         !.outside = @ \cup out,
                         !.beyond = @ \/ s.n + MEMORY > s.N[1] \/ s.m + MEMORY > s.N[2],
                         !.blocks = @ + 1]
  IN {[after EXCEPT !.n = next.n, !.m = next.m, !.p = next.p, !.pc = next.pc]}
     \cup (IF out = {} THEN {} ELSE {[after EXCEPT !.pc = "crash"]})

\* Gamma2D lines 106-126: one block and the heads of the loops over m and n
Deposit2D_Block ==
  /\ job.at = "deposit" /\ job.fn = "Gamma2D" /\ job.pc = "block"
  /\ LET moreM == job.m + MEMORY < job.N[2]
         moreN == job.n + MEMORY < job.N[1]
     IN job' \in Deposited(job,
                   [n |-> IF moreM \/ ~moreN THEN job.n ELSE job.n + MEMORY,
                    m |-> IF moreM THEN job.m + MEMORY ELSE 0, p |-> 0,
                    pc |-> IF moreM \/ moreN THEN "block" ELSE "average"])
  /\ UNCHANGED rest

\* Gamma3D lines 249-277: one block and the heads of the loops over m, p and n
Deposit3D_Block ==
  /\ job.at = "deposit" /\ job.fn = "Gamma3D" /\ job.pc = "block"
  /\ LET moreM == job.m + MEMORY < job.N[2]
         moreP == job.p + 1 < job.N[3]
         moreN == job.n + MEMORY < job.N[1]
     IN job' \in Deposited(job,
                   [m |-> IF moreM THEN job.m + MEMORY ELSE 0,
                    p |-> IF moreM THEN job.p ELSE IF moreP THEN job.p + 1 ELSE 0,
                    n |-> IF moreM \/ moreP \/ ~moreN THEN job.n ELSE job.n + MEMORY,
                    pc |-> IF moreM \/ moreP \/ moreN THEN "block" ELSE "average"])
  /\ UNCHANGED rest

\* average++ (lines 129, 281)
Deposit_Average ==
  /\ job.at = "deposit" /\ job.pc = "average"
  /\ job' = [job EXCEPT !.average = @ + 1, !.pc = "done"]
  /\ UNCHANGED rest

InitDeposit ==
  /\ \/ \E N \in Counts2D : job = DepositStart("Gamma2D", N)
     \/ \E N \in Counts3D : job = DepositStart("Gamma3D", N)
  /\ geo = <<>> /\ ham = <<>> /\ kv = <<>>
  /\ ghosts = <<>> /\ Gghosts = <<>> /\ pc = <<>> /\ pub = <<>>
  /\ mv = [at |-> "off"] /\ gs = [at |-> "off"] /\ sg = [at |-> "off"]

NextDeposit == Deposit2D_Block \/ Deposit3D_Block \/ Deposit_Average

SpecDeposit == InitDeposit /\ [][NextDeposit]_vars

\* C23: for even moment counts every deposit index lies inside the moment array
\* with n+i < N0 and m+j < N1, no entry is updated twice within one random vector,
\* and when the vector is finished every entry has been updated exactly once
C23_DepositIndexBijection ==
  job.at = "deposit" =>
    /\ job.outside = {} /\ ~job.beyond /\ job.pc # "crash"
    /\ \A idx \in DOMAIN job.hits : job.hits[idx] <= 1
    /\ job.pc \in {"average", "done"} => \A idx \in DOMAIN job.hits : job.hits[idx] = 1

(***************************************************************************)
(* The ghost layers of the destination of Velocity                         *)
(***************************************************************************)

\* every ghost face of column c of the vector `name` equals the bulk face of the
\* same column on the neighbouring thread block[d][b]
GhostsRefreshed(g, vs, name, c) ==
  \A t \in Threads(g) : \A d \in {0, 1} : \A b \in {0, 1} : \A i \in Cells(g) :
     LET x == LX(g, i)
         y == LY(g, i)
         onFace == IF d = 0
                   THEN /\ y >= NGHOSTS /\ y < Ld(g, 1) - NGHOSTS
                        /\ (IF b = 0 THEN x < NGHOSTS ELSE x >= Ld(g, 0) - NGHOSTS)
                   ELSE /\ x >= NGHOSTS /\ x < Ld(g, 0) - NGHOSTS
                        /\ (IF b = 0 THEN y < NGHOSTS ELSE y >= Ld(g, 1) - NGHOSTS)
         sh == IF b = 0 THEN ld(g, d) ELSE 0 - ld(g, d)
         j == IF d = 0 THEN LIndex(g, x + sh, y, LO(g, i)) ELSE LIndex(g, x, y + sh, LO(g, i))
     IN onFace => vs[t][name].v[c + 1][i] = vs[block(g, t, d, b)][name].v[c + 1][j]

\* C25: when Velocity(dst, src, axis) has returned, the ghost layers of dst equal
\* the neighbours' bulk faces of dst, at the first call of Single_Shot (dst is
\* column 0 of phi, the vector the method is called on) and at the second (dst is
\* column 0 of phi1, the method being called on phi)
C25_VelocityRefreshesDestination ==
  job.at = "shot" =>
    /\ job.pc = "left" /\ job.n = 1 => GhostsRefreshed(geo, kv, "phi", 0)
    /\ job.pc = "restart" => GhostsRefreshed(geo, kv, "phi1", 0)

(***************************************************************************)
(* What Multiply<0>, Velocity and Velocity2 leave of the old destination   *)
(***************************************************************************)

\* the last call wrote a column without using its predecessor phiM2
OverwritingCall ==
  /\ mv.at # "off"
  /\ \/ mv.op = "Multiply" /\ mv.MULT = 0
     \/ mv.op \in {"Velocity", "Velocity2"}

\* the column the last call wrote, and the writes it made in their order
DstColumn == IF mv.op = "Multiply" THEN inc_index(mv.prev) ELSE mv.c0
LastOps ==
  IF mv.op = "Multiply" THEN MultiplyOps(geo, ham, mv.MULT) ELSE VelocityOps(geo, ham, mv.sel)

\* the last call repeated on the ring K
Repeated(K) ==
  IF mv.op = "Multiply" THEN MultiplyLocal(geo, ham, K, mv.MULT)
  ELSE VelocityLocal(geo, ham, K, mv.c0, mv.c1, mv.sel)

\* the ring K with other values in every cell of column c
OtherContent(K, c) == [K EXCEPT !.v[c + 1] = [i \in Cells(geo) |-> @[i] + 1]]

\* the bulk cells of the destination hold what they would hold had the destination
\* held something else before the call
DestinationForgotten ==
  LET again == Repeated(OtherContent(mv.prev, DstColumn)).v[DstColumn + 1]
  IN \A i \in BulkCells(geo) : again[i] = mv.K.v[DstColumn + 1][i]

IsInit(op) == op.k \in {"init", "clear"}

\* positions of the initialisations and of the added contributions in a list of writes
InitPositions(ops) == {n \in DOMAIN ops : IsInit(ops[n])}
AddPositions(ops) == {n \in DOMAIN ops : ops[n].k = "add"}

\* no cell is initialised after a contribution has been added to it
NoInitAfterAdd(ops) ==
  LET adds == AddPositions(ops)
  IN \A n \in InitPositions(ops) : \A q \in adds : ops[q].i = ops[n].i => n < q

\* no cell of a tile whose flag cross_mozaic is not set is initialised
NoInitUnflagged(ops) ==
  \A n \in InitPositions(ops) : ham.cross_mozaic[TileOf(geo, ops[n].i) + 1]

\* every bulk cell is initialised exactly once
InitialisedOnce(ops) ==
  LET inits == InitPositions(ops)
  IN /\ \A n \in inits : \A q \in inits : ops[q].i = ops[n].i => n = q
     /\ BulkCells(geo) \subseteq {ops[n].i : n \in inits}

\* C26 as stated: the result does not depend on the old destination, the tiles whose
\* flag cross_mozaic is not set are not initialised explicitly (their first
\* contribution overwrites), and no tile is initialised after a contribution
C26_UnflaggedTilesNotInitialised ==
  OverwritingCall =>
    /\ DestinationForgotten
    /\ NoInitUnflagged(LastOps)
    /\ NoInitAfterAdd(LastOps)

\* C26: the result does not depend on the old destination because every bulk cell
\* is initialised explicitly exactly once, before the sweep for the tiles of
\* cross_mozaic_indexes and at the head of its own tile for the tiles flagged in
\* cross_mozaic, and every contribution is added after that initialisation
C26_EveryTileInitialisedOnce ==
  OverwritingCall =>
    /\ DestinationForgotten
    /\ InitialisedOnce(LastOps)
    /\ NoInitAfterAdd(LastOps)

\* a Velocity or Multiply<0> on a Hamiltonian with a tile that receives bonds from
\* another tile, whose cells are not flagged in cross_mozaic
C26_Witness ==
  /\ OverwritingCall
  /\ ham.cross_mozaic_indexes # <<>> /\ ham.hd # <<>>
  /\ \E i \in BulkCells(geo) :
       ~ham.cross_mozaic[TileOf(geo, i) + 1] /\ mv.K.v[DstColumn + 1][i] # 0

(***************************************************************************)
(* The cursor of the KPM vectors in the drivers, and what each slot holds. *)
(* A slot holds <<"T", k>>: the Chebyshev vector of order k of the vector   *)
(* its ring was started from, <<"vT", k>>: a velocity applied to such a     *)
(* vector, or <<"other", 0>>: anything else.                               *)
(***************************************************************************)

\* largest number of moments per direction of the pair drivers
MaxPairMoments == 6

PairCounts == {n \in 2 .. MaxPairMoments : n % 2 = 0}

\* KPM_VectorBasis::set_index (KPM_Vector.hpp line 17): no test of the argument
set_index(K, i) == [K EXCEPT !.index = i]

\* KPM_Vector.hpp lines 10-15: the constructor
KPM_VectorBasis(mem) == [index |-> 0, memory |-> mem]

Other == <<"other", 0>>

\* what Multiply<MULT> writes, phiM1 and phiM2 being what the two predecessor slots
\* hold: (MULT+1)*H*phiM1 - MULT*phiM2 is the Chebyshev vector of order k+1 when
\* MULT = 0 and phiM1 has order 0, or MULT = 1 and phiM1, phiM2 have orders k, k-1
ChebStep(MULT, phiM1, phiM2) ==
  IF phiM1[1] # "T" THEN Other
  ELSE IF MULT = 0 THEN (IF phiM1[2] = 0 THEN <<"T", 1>> ELSE Other)
  ELSE IF phiM2 = <<"T", phiM1[2] - 1>> THEN <<"T", phiM1[2] + 1>> ELSE Other

\* what a velocity writes when applied to src
VelStep(src) == IF src[1] = "T" THEN <<"vT", src[2]>> ELSE Other

\* the calls of a driver: v.set_index(i); v.Multiply<i>(); column index of v
\* started from column index of w (copied, or through generalized_velocity);
\* a velocity of column index of w written into column index of v; the dot
\* product deposited at the origins i and w
OpSet(v, i) == [op |-> "set_index", v |-> v, i |-> i, w |-> 0]
OpMul(v, MULT) == [op |-> "Multiply", v |-> v, i |-> MULT, w |-> 0]
OpStart(v, w) == [op |-> "start", v |-> v, i |-> 0, w |-> w]
OpVel(v, w) == [op |-> "velocity", v |-> v, i |-> 0, w |-> w]
OpDot(n, m) == [op |-> "dot", v |-> "", i |-> n, w |-> m]

RECURSIVE Concat(_, _, _)
\* the operations of the loop bodies f[lo], ..., f[hi - 1] one after the other
Concat(f, lo, hi) == IF lo >= hi THEN <<>> ELSE f[lo] \o Concat(f, lo + 1, hi)

\* one Multiply<1> per pass of the loop over m
PairOpsSingle(v, N) ==
  <<OpMul(v, 0), OpDot(0, 0)>>
  \o Concat([m \in 1 .. N |-> IF m >= 2 /\ m % 2 = 0
                              THEN <<OpMul(v, 1), OpDot(0, m)>> ELSE <<>>], 1, N)

\* Multiply<0> and the dot product of the first pair, then
\* "for(m = 2; m < N; m += 2)": two Multiply<1> and the dot product of the pair
PairOps(v, N) ==
  <<OpMul(v, 0), OpDot(0, 0)>>
  \o Concat([m \in 1 .. N |-> IF m >= 2 /\ m % 2 = 0
                              THEN <<OpMul(v, 1), OpMul(v, 1), OpDot(0, m)>> ELSE <<>>], 1, N)

\* cheb_iteration(&v, n - 1) without the guard
ChebOpsAlways(v, n) == <<OpMul(v, IF n - 1 = 0 THEN 0 ELSE 1)>>

\* cheb_iteration(&v, n - 1) under its guard "if(n != 0)"
ChebOps(v, n) == IF n # 0 THEN <<OpMul(v, IF n - 1 = 0 THEN 0 ELSE 1)>> ELSE <<>>

\* Gamma1D (part_000 lines 321-358), Measure_Dos (Simulation.hpp lines 267-284),
\* Measure_Lmu (lines 953-985): one random vector; x0 is the 1-slot vector
Ops_Pairs(x0, v, N) ==
  <<OpStart(x0, x0), OpSet(v, 0), OpStart(v, x0)>> \o PairOps(v, N[1])

\* time_kpm (Simulation.hpp lines 897-908) with N_average = N[1]
Ops_time_kpm(N) ==
  <<OpStart("kpm0", "kpm0"), OpSet("kpm1", 0), OpStart("kpm1", "kpm0"), OpMul("kpm1", 0)>>
  \o Concat([i \in 0 .. N[1] |-> <<OpMul("kpm1", 1)>>], 0, N[1])

\* Measure_Cond (Simulation.hpp lines 387-450): one random vector
Ops_Measure_Cond(N) ==
  <<OpStart("phi0", "phi0"), OpSet("phi_n", 0), OpStart("phi_n", "phi0")>>
  \o Concat([n \in 0 .. N[1] |->
       <<OpSet("phi_m", 0), OpStart("phi_m", "phi_n")>> \o PairOps("phi_m", N[1])
       \o (IF n = 0 THEN <<OpMul("phi_n", 0)>>
           ELSE IF n < N[1] - 1 THEN <<OpMul("phi_n", 1)>> ELSE <<>>)], 0, N[1])

\* Single_Shot (Simulation.hpp lines 1095-1144): one random vector, one energy
Ops_Single_Shot(N) ==
  LET side == <<OpSet("phi", 0), OpStart("phi", "phi0"), OpMul("phi", 0)>>
              \o Concat([n \in 2 .. N[1] |-> <<OpMul("phi", 1)>>], 2, N[1])
  IN <<OpStart("phi0", "phi0")>> \o side \o side

\* Gamma2D (part_000 lines 82-127): one random vector
Ops_Gamma2D(N) ==
  <<OpStart("kpm0", "kpm0"), OpSet("kpm1", 0), OpStart("kpm1", "kpm0")>>
  \o Concat([n \in 0 .. N[1] |->
       IF n % MEMORY # 0 THEN <<>> ELSE
         Concat([i \in n .. n + MEMORY |->
                   ChebOps("kpm1", i) \o <<OpSet("kpm3", i % MEMORY), OpVel("kpm3", "kpm1")>>],
                n, n + MEMORY)
         \o <<OpSet("kpm2", 0), OpStart("kpm2", "kpm0")>>
         \o Concat([m \in 0 .. N[2] |->
              IF m % MEMORY # 0 THEN <<>> ELSE
                Concat([i \in m .. m + MEMORY |-> ChebOps("kpm2", i)], m, m + MEMORY)
                \o <<OpDot(n, m)>>],
              0, N[2])], 0, N[1])

\* Gamma3D (part_000 lines 227-252): one random vector
Ops_Gamma3D(N) ==
  <<OpStart("kpm0", "kpm0"), OpSet("kpm_Vn", 0), OpStart("kpm_Vn", "kpm0")>>
  \o Concat([n \in 0 .. N[1] |->
       IF n % MEMORY # 0 THEN <<>> ELSE
         Concat([ni \in n .. n + MEMORY |->
                   ChebOps("kpm_Vn", ni)
                   \o <<OpSet("kpm_VnV", ni % MEMORY), OpVel("kpm_VnV", "kpm_Vn")>>],
                n, n + MEMORY)
         \o <<OpSet("kpm_p", 0), OpStart("kpm_p", "kpm0")>>
         \o Concat([p \in 0 .. N[3] |->
              ChebOps("kpm_p", p) \o <<OpSet("kpm_pVm", 0), OpStart("kpm_pVm", "kpm_p")>>
              \o Concat([m \in 0 .. N[2] |->
                   IF m % MEMORY # 0 THEN <<>> ELSE
                     Concat([mi \in m .. m + MEMORY |-> ChebOps("kpm_pVm", mi)], m, m + MEMORY)],
                   0, N[2])], 0, N[3])], 0, N[1])

\* the name of kpm_vector.at(k)
At_(k) == <<"at0", "at1", "at2", "at3">>[k + 1]

RECURSIVE Ops_recursive_KPM(_, _, _)
\* recursive_KPM (Simulation.hpp lines 661-740) at the given depth
Ops_recursive_KPM(depth, max_depth, N) ==
  IF depth # max_depth
    THEN Concat([p \in 0 .. N[depth] |->
           <<OpSet(At_(depth + 1), 0), OpStart(At_(depth + 1), At_(depth))>>
           \o Ops_recursive_KPM(depth + 1, max_depth, N)
           \o (IF p = 0 THEN <<OpMul(At_(depth), 0)>>
               ELSE IF p < N[depth] - 1 THEN <<OpMul(At_(depth), 1)>> ELSE <<>>)],
           0, N[depth])
    ELSE PairOps(At_(depth), N[depth])

\* Measure_Gamma (Simulation.hpp lines 585-634): one random vector
Ops_Measure_Gamma(N) ==
  <<OpStart(At_(0), At_(0)), OpSet(At_(1), 0), OpStart(At_(1), At_(0))>>
  \o Ops_recursive_KPM(1, Len(N), N)

\* the vectors each driver constructs, with their numbers of slots
RingsOf(fn, N) ==
  CASE fn \in {"Gamma1D", "time_kpm"} -> [kpm0 |-> 1, kpm1 |-> 2]
    [] fn \in {"Measure_Dos", "Measure_Lmu"} -> [phi0 |-> 1, phi |-> 2]
    [] fn = "Measure_Cond" -> [phi0 |-> 1, phi_n |-> 2, phi_m |-> 2]
    [] fn = "Single_Shot" -> [phi0 |-> 1, phi |-> 2, phi1 |-> 2]
    [] fn = "Gamma2D" -> [kpm0 |-> 1, kpm1 |-> 2, kpm2 |-> MEMORY, kpm3 |-> MEMORY]
    [] fn = "Gamma3D" ->
         [kpm0 |-> 1, kpm_Vn |-> 2, kpm_VnV |-> MEMORY, kpm_p |-> 2, kpm_pVm |-> MEMORY]
    [] fn = "Measure_Gamma" ->
         [v \in {At_(k) : k \in 0 .. Len(N)} |-> IF v = At_(0) THEN 1 ELSE 2]

OpsOf(fn, N) ==
  CASE fn = "Gamma1D" -> Ops_Pairs("kpm0", "kpm1", N)
    [] fn \in {"Measure_Dos", "Measure_Lmu"} -> Ops_Pairs("phi0", "phi", N)
    [] fn = "time_kpm" -> Ops_time_kpm(N)
    [] fn = "Measure_Cond" -> Ops_Measure_Cond(N)
    [] fn = "Single_Shot" -> Ops_Single_Shot(N)
    [] fn = "Gamma2D" -> Ops_Gamma2D(N)
    [] fn = "Gamma3D" -> Ops_Gamma3D(N)
    [] fn = "Measure_Gamma" -> Ops_Measure_Gamma(N)

\* the moment counts the drivers are run with
CursorInputs ==
  ({"Gamma1D", "Measure_Dos", "Measure_Lmu", "time_kpm", "Measure_Cond", "Single_Shot"}
     \X {<<n>> : n \in PairCounts})
  \cup ({"Gamma2D"} \X {<<MEMORY, MEMORY>>, <<2 * MEMORY, MEMORY>>, <<2 * MEMORY, 3 * MEMORY>>})
  \cup ({"Gamma3D"} \X {<<MEMORY, MEMORY, 2>>})
  \cup ({"Measure_Gamma"} \X ({<<n>> : n \in PairCounts} \cup {<<2, 2>>, <<4, 2>>, <<2, 2, 2>>}))

NoAccess == [v |-> "none", wr |-> 0, m1 |-> 0, m2 |-> 0, before |-> 0, memory |-> 0]
NoDot == [on |-> FALSE, n |-> 0, m |-> 0]

CursorStart(fn, N) ==
  [at |-> "cursor", fn |-> fn, N |-> N, ops |-> OpsOf(fn, N), k |-> 0,
   ring |-> [v \in DOMAIN RingsOf(fn, N) |->
               [index |-> KPM_VectorBasis(RingsOf(fn, N)[v]).index,
                memory |-> KPM_VectorBasis(RingsOf(fn, N)[v]).memory,
                col |-> [c \in 0 .. (RingsOf(fn, N)[v] - 1) |-> Other]]],
   arg |-> {}, last |-> NoAccess, dot |-> NoDot, pairs |-> <<>>,
   hits |-> [k \in 0 .. (N[1] - 1) |-> 0]]

NextOp == job.ops[job.k + 1]

\* a call of set_index in a driver
Cursor_set_index ==
  /\ job.at = "cursor" /\ job.k < Len(job.ops) /\ NextOp.op = "set_index"
  /\ job' = [job EXCEPT !.k = @ + 1,
                        !.ring[NextOp.v] = set_index(@, NextOp.i),
                        !.arg = @ \cup {<<NextOp.i, job.ring[NextOp.v].memory>>},
                        !.last = NoAccess, !.dot = NoDot]
  /\ UNCHANGED rest

\* KPM_Vector2D.hpp lines 109-113: the head of Multiply, and the slot it writes
Cursor_Multiply ==
  /\ job.at = "cursor" /\ job.k < Len(job.ops) /\ NextOp.op = "Multiply"
  /\ LET K == job.ring[NextOp.v]
         idx == inc_index(K)
         m1 == (K.memory + idx - 1) % K.memory
         m2 == (K.memory + idx - 2) % K.memory
     IN job' = [job EXCEPT !.k = @ + 1,
                           !.ring[NextOp.v].index = idx,
                           !.ring[NextOp.v].col[idx] = ChebStep(NextOp.i, K.col[m1], K.col[m2]),
                           !.last = [v |-> NextOp.v, wr |-> idx, m1 |-> m1, m2 |-> m2,
                                     before |-> K.index, memory |-> K.memory],
                           !.dot = NoDot]
  /\ UNCHANGED rest

\* initiate_vector, "v.col(0) = w.col(0)" and the generalized_velocity that starts a
\* ring: column index of v becomes the vector the recursion of v starts from
Cursor_Start ==
  /\ job.at = "cursor" /\ job.k < Len(job.ops) /\ NextOp.op = "start"
  /\ job' = [job EXCEPT !.k = @ + 1,
                        !.ring[NextOp.v].col[job.ring[NextOp.v].index] = <<"T", 0>>,
                        !.last = NoAccess, !.dot = NoDot]
  /\ UNCHANGED rest

\* generalized_velocity(&v, &w, indices, pos) into the column index of v
Cursor_Velocity ==
  /\ job.at = "cursor" /\ job.k < Len(job.ops) /\ NextOp.op = "velocity"
  /\ LET src == job.ring[NextOp.w]
     IN job' = [job EXCEPT !.k = @ + 1,
                           !.ring[NextOp.v].col[job.ring[NextOp.v].index] =
                              VelStep(src.col[src.index]),
                           !.last = NoAccess, !.dot = NoDot]
  /\ UNCHANGED rest

\* the block dot product of Gamma2D (part_000 lines 116-126) and the dot product of
\* a pair (part_000 lines 337-343, 350-355; Simulation.hpp lines 275, 281): the
\* pair drivers update the moments m and m + 1 once each
Cursor_Dot ==
  /\ job.at = "cursor" /\ job.k < Len(job.ops) /\ NextOp.op = "dot"
  /\ job' = [job EXCEPT !.k = @ + 1, !.last = NoAccess,
                        !.dot = [on |-> TRUE, n |-> NextOp.i, m |-> NextOp.w],
                        !.pairs = Append(@, NextOp.w),
                        !.hits = [k \in DOMAIN @ |->
                                    IF job.fn # "Gamma2D" /\ k \in {NextOp.w, NextOp.w + 1}
                                    THEN @[k] + 1 ELSE @[k]]]
  /\ UNCHANGED rest

\* the driver has finished its random vector
Cursor_Return ==
  /\ job.at = "cursor" /\ job.k = Len(job.ops)
  /\ job' = [job EXCEPT !.k = @ + 1, !.last = NoAccess, !.dot = NoDot]
  /\ UNCHANGED rest

InitCursor ==
  /\ \E in \in CursorInputs : job = CursorStart(in[1], in[2])
  /\ geo = <<>> /\ ham = <<>> /\ kv = <<>>
  /\ ghosts = <<>> /\ Gghosts = <<>> /\ pc = <<>> /\ pub = <<>>
  /\ mv = [at |-> "off"] /\ gs = [at |-> "off"] /\ sg = [at |-> "off"]

NextCursor ==
  \/ Cursor_set_index \/ Cursor_Multiply \/ Cursor_Start \/ Cursor_Velocity
  \/ Cursor_Dot \/ Cursor_Return

SpecCursor == InitCursor /\ [][NextCursor]_vars

\* x modulo M for x >= -2, as a mathematical residue
Residue(x, M) == (x + 2 * M) % M

\* C24: the cursor of every vector stays in [0, M), set_index is only called with a
\* value in [0, M), Multiply is only called on vectors with M >= 2, advances the
\* cursor by one modulo M, writes slot index and reads slots (index-1) mod M and
\* (index-2) mod M
C24_CursorInRange ==
  job.at = "cursor" =>
    /\ \A v \in DOMAIN job.ring : job.ring[v].index >= 0 /\ job.ring[v].index < job.ring[v].memory
    /\ \A a \in job.arg : a[1] >= 0 /\ a[1] < a[2]
    /\ job.last.v # "none" =>
         /\ job.last.memory >= 2
         /\ job.last.wr = Residue(job.last.before + 1, job.last.memory)
         /\ job.last.wr = job.ring[job.last.v].index
         /\ job.last.m1 = Residue(job.last.wr - 1, job.last.memory)
         /\ job.last.m2 = Residue(job.last.wr - 2, job.last.memory)
         /\ job.last.m1 # job.last.wr

\* a Multiply on a MEMORY-slot ring wrapped the cursor back to slot 0
C24_Witness ==
  /\ job.at = "cursor" /\ job.last.v # "none"
  /\ job.last.memory = MEMORY /\ job.last.before = MEMORY - 1 /\ job.last.wr = 0

\* C27: at every block dot product of Gamma2D with origins (n, m), column i of kpm3
\* holds the velocity of the Chebyshev vector of order n+i and column j of kpm2 the
\* Chebyshev vector of order m+j, for every i, j in 0..MEMORY-1
C27_BlockColumnsHoldOrders ==
  job.at = "cursor" /\ job.fn = "Gamma2D" /\ job.dot.on =>
    \A i \in 0 .. (MEMORY - 1) :
       /\ job.ring.kpm3.col[i] = <<"vT", job.dot.n + i>>
       /\ job.ring.kpm2.col[i] = <<"T", job.dot.m + i>>

\* the dot product of a block reached after kpm2 has wrapped twice, in the second
\* block of n, kpm2 having been started again from kpm0
C27_Witness ==
  /\ job.at = "cursor" /\ job.fn = "Gamma2D" /\ job.dot.on
  /\ job.dot.n = MEMORY /\ job.dot.m = 2 * MEMORY
  /\ job.ring.kpm2.index = MEMORY - 1 /\ job.ring.kpm2.col[0] = <<"T", 2 * MEMORY>>

PairDrivers == {"Gamma1D", "Measure_Dos"}

\* the pairs 0, 2, ..., m in their order
PairsUpTo(m) == [k \in 1 .. ((m \div 2) + 1) |-> 2 * (k - 1)]

\* C28: at the dot product of the pair (m, m+1) of Gamma1D and Measure_Dos the
\* 2-slot ring has index 1 and its slots 0 and 1 hold the Chebyshev vectors of order
\* m and m+1; the pairs are visited in the order 0, 2, ..., N-2, and when the random
\* vector is finished every moment 0..N-1 has been updated exactly once
C28_PairsInOrder ==
  job.at = "cursor" /\ job.fn \in PairDrivers =>
    LET ring == IF job.fn = "Gamma1D" THEN job.ring.kpm1 ELSE job.ring.phi
    IN /\ job.dot.on =>
            /\ ring.index = 1
            /\ ring.col[0] = <<"T", job.dot.m>> /\ ring.col[1] = <<"T", job.dot.m + 1>>
            /\ job.pairs = PairsUpTo(job.dot.m)
       /\ \A k \in DOMAIN job.hits : job.hits[k] <= 1
       /\ job.k > Len(job.ops) =>
            /\ job.pairs = PairsUpTo(job.N[1] - 2)
            /\ \A k \in DOMAIN job.hits : job.hits[k] = 1

\* the last pair of a run of Measure_Dos with more than one pair
C28_Witness ==
  /\ job.at = "cursor" /\ job.fn = "Measure_Dos" /\ job.dot.on
  /\ job.dot.m >= 2 /\ job.dot.m = job.N[1] - 2

(***************************************************************************)
(* Gamma3D, part_000 lines 204-209 and 254-289: the reduction of one block *)
(* after the other through Global.smaller_gamma, thread by thread.          *)
(* Global.smaller_gamma is kept as the number of times the product of each *)
(* thread for each block has been added to it since it was last zeroed.    *)
(***************************************************************************)
MaxFoldThreads == 3
MaxBlocks == 2

FoldThreads == 0 .. (job.T - 1)
FoldBlocks == 0 .. (job.NB - 1)

\* line 262 left out: the add follows the zeroing without a barrier
AfterZeroNoBarrier == "add"

\* line 262: the barrier between the master's setZero and the critical add
AfterZero == "b262"

FoldBarriers == {"b209", "b262", "b267", "b277", "b289"}

\* where a thread continues after the barrier it waits at
AfterFoldBarrier(th) ==
  CASE th.pc = "b209" -> [th EXCEPT !.pc = "product"]
    [] th.pc = "b262" -> [th EXCEPT !.pc = "add"]
    [] th.pc = "b267" -> [th EXCEPT !.pc = "fold"]
    [] th.pc = "b277" -> IF th.blk + 1 < job.NB
                         THEN [th EXCEPT !.pc = "product", !.blk = @ + 1]
                         ELSE [th EXCEPT !.pc = "store"]
    [] th.pc = "b289" -> [th EXCEPT !.pc = "done"]

NothingAdded == [c \in FoldThreads \X FoldBlocks |-> 0]

FoldStart(T, NB) ==
  [at |-> "fold", T |-> T, NB |-> NB,
   th |-> [t \in 0 .. (T - 1) |-> [pc |-> "init", blk |-> 0]],
   smaller |-> [c \in (0 .. (T - 1)) \X (0 .. (NB - 1)) |-> 1],
   zeroed |-> {}, folded |-> <<>>, writers |-> {}, early |-> FALSE, stored |-> FALSE]

\* lines 204-208: the master allocates Global.general_gamma and Global.smaller_gamma
Fold_Init(t) ==
  /\ job.at = "fold" /\ job.th[t].pc = "init"
  /\ job' = [job EXCEPT !.th[t].pc = "b209",
                        !.smaller = IF IsMaster(t) THEN NothingAdded ELSE @,
                        !.writers = IF IsMaster(t) THEN @ \cup {t} ELSE @]
  /\ UNCHANGED rest

\* lines 227-256: the vectors of the block and the local product tmp
Fold_Product(t) ==
  /\ job.at = "fold" /\ job.th[t].pc = "product"
  /\ job' = [job EXCEPT !.th[t].pc = "zero"]
  /\ UNCHANGED rest

\* lines 258-261: the master zeroes Global.smaller_gamma
Fold_Zero(t) ==
  /\ job.at = "fold" /\ job.th[t].pc = "zero"
  /\ job' = [job EXCEPT !.th[t].pc = AfterZero,
                        !.smaller = IF IsMaster(t) THEN NothingAdded ELSE @,
                        !.zeroed = IF IsMaster(t) THEN @ \cup {job.th[t].blk} ELSE @]
  /\ UNCHANGED rest

\* lines 263-266: Global.smaller_gamma += tmp.array() inside the critical section
Fold_Add(t) ==
  /\ job.at = "fold" /\ job.th[t].pc = "add"
  /\ LET blk == job.th[t].blk
     IN job' = [job EXCEPT !.th[t].pc = "b267",
                           !.smaller[<<t, blk>>] = @ + 1,
                           !.early = @ \/ blk \notin job.zeroed \/ Len(job.folded) < blk]
  /\ UNCHANGED rest

\* lines 268-276: the master folds Global.smaller_gamma into Global.general_gamma
Fold_Master(t) ==
  /\ job.at = "fold" /\ job.th[t].pc = "fold"
  /\ job' = [job EXCEPT !.th[t].pc = "b277",
                        !.folded = IF IsMaster(t)
                                   THEN Append(@, [blk |-> job.th[t].blk, sum |-> job.smaller])
                                   ELSE @,
                        !.writers = IF IsMaster(t) THEN @ \cup {t} ELSE @]
  /\ UNCHANGED rest

\* lines 284-288: the master writes Global.general_gamma to the file
Fold_Store(t) ==
  /\ job.at = "fold" /\ job.th[t].pc = "store"
  /\ job' = [job EXCEPT !.th[t].pc = "b289", !.stored = @ \/ IsMaster(t)]
  /\ UNCHANGED rest

\* #pragma omp barrier: the team is released when every thread has arrived
Fold_Release ==
  /\ job.at = "fold"
  /\ \A t \in FoldThreads : job.th[t].pc \in FoldBarriers
  /\ job' = [job EXCEPT !.th = [t \in FoldThreads |-> AfterFoldBarrier(@[t])]]
  /\ UNCHANGED rest

InitFold ==
  /\ \E T \in 1 .. MaxFoldThreads : \E NB \in 1 .. MaxBlocks : job = FoldStart(T, NB)
  /\ geo = <<>> /\ ham = <<>> /\ kv = <<>>
  /\ ghosts = <<>> /\ Gghosts = <<>> /\ pc = <<>> /\ pub = <<>>
  /\ mv = [at |-> "off"] /\ gs = [at |-> "off"] /\ sg = [at |-> "off"]

NextFold ==
  \/ \E t \in FoldThreads : Fold_Init(t)
  \/ \E t \in FoldThreads : Fold_Product(t)
  \/ \E t \in FoldThreads : Fold_Zero(t)
  \/ \E t \in FoldThreads : Fold_Add(t)
  \/ \E t \in FoldThreads : Fold_Master(t)
  \/ \E t \in FoldThreads : Fold_Store(t)
  \/ Fold_Release

SpecFold == InitFold /\ [][NextFold]_vars

\* the product of every thread for block blk, once each, and nothing else
SumOfBlock(blk) == [c \in FoldThreads \X FoldBlocks |-> IF c[2] = blk THEN 1 ELSE 0]

\* C29: whenever the master folds, Global.smaller_gamma is the sum of the products
\* of all threads for exactly that block; no thread adds before the master has
\* zeroed the block or before the previous block has been folded; the blocks are
\* folded once each in their order; only the master writes Global.general_gamma
C29_FoldSeesWholeBlock ==
  job.at = "fold" =>
    /\ \A k \in 1 .. Len(job.folded) :
         job.folded[k].blk = k - 1 /\ job.folded[k].sum = SumOfBlock(k - 1)
    /\ ~job.early
    /\ job.writers \subseteq {0}
    /\ job.stored => Len(job.folded) = job.NB

\* the second block folded by the master of the largest team
C29_Witness ==
  /\ job.at = "fold" /\ job.T = MaxFoldThreads /\ Len(job.folded) = 2
  /\ job.folded[2].sum = SumOfBlock(1) /\ job.th[0].pc = "b277"

(***************************************************************************)
(* The post-processing tools: the rows of the moment matrix shared out     *)
(* between the threads (conductivity_dc.cpp lines 291-353, Gamma3.cpp      *)
(* lines 48-74)                                                            *)
(***************************************************************************)
MaxNumMoments == 8
MaxToolThreads == 4

\* int localMoments = NumMoments/N_threads
localMoments(NumMoments, N_threads) == NumMoments \div N_threads

\* the rows of block(thread*localMoments, 0, localMoments, NumMoments)
RowBlock(thread, lm) == (thread * lm) .. ((thread + 1) * lm - 1)

RowsStart(fn, NumMoments, T) ==
  [at |-> "rows", fn |-> fn, NumMoments |-> NumMoments, NumThreads |-> T, N_threads |-> 0,
   pc |-> "master", todo |-> {}, counted |-> [r \in 0 .. (NumMoments - 1) |-> 0]]

\* conductivity_dc.cpp lines 299-303: N_threads = omp_get_num_threads(), the barrier
Rows_MasterDC ==
  /\ job.at = "rows" /\ job.pc = "master" /\ job.fn = "conductivity_dc"
  /\ job' = [job EXCEPT !.N_threads = job.NumThreads, !.pc = "for",
                        !.todo = 0 .. (job.NumThreads - 1)]
  /\ UNCHANGED rest

\* Gamma3.cpp lines 53-63: N_threads = omp_get_num_threads(), exit(1) unless the
\* number of threads divides the number of moments, the barrier
Rows_MasterGamma3 ==
  /\ job.at = "rows" /\ job.pc = "master" /\ job.fn = "Gamma3shgContract_RA"
  /\ job' = [job EXCEPT !.N_threads = job.NumThreads,
                        !.pc = IF job.NumMoments % job.NumThreads # 0 THEN "exit" ELSE "for",
                        !.todo = 0 .. (job.NumThreads - 1)]
  /\ UNCHANGED rest

\* one iteration of "#pragma omp for schedule(static, 1) nowait" (conductivity_dc.cpp
\* lines 305-350, Gamma3.cpp lines 65-74 and what follows): the rows of the block of
\* `thread` go into the sum, which is added to the shared result inside the
\* critical section
Rows_Block(thread) ==
  /\ job.at = "rows" /\ job.pc = "for" /\ thread \in job.todo
  /\ LET rows == RowBlock(thread, localMoments(job.NumMoments, job.N_threads))
     IN job' = [job EXCEPT !.todo = @ \ {thread},
                           !.counted = [r \in DOMAIN @ |-> IF r \in rows THEN @[r] + 1 ELSE @[r]]]
  /\ UNCHANGED rest

\* conductivity_dc.cpp line 351: the barrier that ends the loop
Rows_Barrier ==
  /\ job.at = "rows" /\ job.pc = "for" /\ job.todo = {}
  /\ job' = [job EXCEPT !.pc = "done"]
  /\ UNCHANGED rest

InitRows ==
  /\ \E fn \in {"conductivity_dc", "Gamma3shgContract_RA"} :
       \E NumMoments \in 1 .. MaxNumMoments : \E T \in 1 .. MaxToolThreads :
          job = RowsStart(fn, NumMoments, T)
  /\ geo = <<>> /\ ham = <<>> /\ kv = <<>>
  /\ ghosts = <<>> /\ Gghosts = <<>> /\ pc = <<>> /\ pub = <<>>
  /\ mv = [at |-> "off"] /\ gs = [at |-> "off"] /\ sg = [at |-> "off"]

NextRows ==
  \/ Rows_MasterDC
  \/ Rows_MasterGamma3
  \/ \E thread \in 0 .. (MaxToolThreads - 1) : Rows_Block(thread)
  \/ Rows_Barrier

SpecRows == InitRows /\ [][NextRows]_vars

\* C30: when conductivity_dc::calculate has left its parallel loop, every row of
\* Gamma has gone into GammaE exactly once, for every number of threads and every
\* number of moments
C30_EveryRowCountedOnce ==
  job.at = "rows" /\ job.fn = "conductivity_dc" /\ job.pc = "done" =>
    \A r \in DOMAIN job.counted : job.counted[r] = 1

====
